---- MODULE Spec2Model ----
(***************************************************************************)
(* Command Orchestration Core of llm-orchestra: session memory             *)
(* (src/utils/session.py), safety / undo policy (src/utils/safety.py),     *)
(* the workflow engine (src/orchestrator/workflow_engine.py) and the       *)
(* orchestrator that ties them together (src/main.py).                     *)
(***************************************************************************)
EXTENDS Integers, Sequences, FiniteSets, TLC

VARIABLES
    history,          \* SessionContext.history : list of CommandResult
    references,       \* SessionContext.references : key -> value
    ret,              \* value returned / reported by the last operation
    dry_run,          \* SafetyManager.dry_run
    undo_stack,       \* SafetyManager.undo_stack : list of UndoAction
    recorded,         \* number of record_action calls so far
    streak,           \* record_action calls since the last pop or clear
    popped,           \* entries popped from the undo stack so far
    auto_confirm,     \* Orchestrator.auto_confirm
    calls,            \* mutating service calls made so far, in order
    pc,               \* process_command: "idle", in the "workflow" loop, or "done"
    steps,            \* _execute_workflow: the list of WorkflowStep
    step_i,           \* _execute_workflow: loop index i (0-based)
    completed_steps,  \* WorkflowContext.completed_steps
    failed_steps,     \* WorkflowContext.failed_steps
    results,          \* WorkflowContext.results : step index -> result
    attempted,        \* (index, completed_steps at start) of each executed step
    entry_len         \* len(session.history) when process_command was last entered

sessionVars == <<history, references>>
safetyVars == <<dry_run, undo_stack, recorded, streak, popped>>
workflowVars == <<pc, steps, step_i, completed_steps, failed_steps, results, attempted>>
vars == <<history, references, ret, dry_run, undo_stack, recorded, streak, popped,
          auto_confirm, calls, pc, steps, step_i, completed_steps,
          failed_steps, results, attempted, entry_len>>

(***************************************************************************)
(* Bounds                                                                  *)
(***************************************************************************)
MaxHistory == 2       \* add_command calls between two clear_history
MaxRecorded == 12     \* record_action calls in one run
MaxPopped == 1        \* entries popped from the undo stack in one run
MaxSteps == 2         \* operations in one multi-service intent
MaxCalls == 2         \* mutating service calls in one run

(***************************************************************************)
(* Python values: None, a list, an entity (a dict with an id) or a string. *)
(***************************************************************************)
Entities == {"e1", "e2"}

PyNone == [kind |-> "none", items |-> <<>>, id |-> ""]
PyList(s) == [kind |-> "list", items |-> s, id |-> ""]
PyDict(e) == [kind |-> "dict", items |-> <<>>, id |-> e]
PyStr(t) == [kind |-> "str", items |-> <<>>, id |-> t]

\* bool(v): None and the empty list are falsy, an entity dict is truthy
Truthy(v) == v.kind = "dict" \/ (v.kind = "list" /\ Len(v.items) > 0)

IsList(v) == v.kind = "list"

\* v[k] for a list v (1-based here, 0-based in the source)
Elem(v, k) == PyDict(v.items[k])

(***************************************************************************)
(* SessionContext                                                          *)
(***************************************************************************)
Services == {"gmail", "calendar", "drive"}

RefKeys == {"last_gmail_command", "last_calendar_command", "last_drive_command",
            "last_command", "last_emails", "last_email", "last_sent_email",
            "last_events", "last_event", "next_meeting", "last_created_event",
            "last_files", "last_file"}

\* a key that is not in the references dict
Absent == [tag |-> "absent", cmd |-> <<>>, val |-> PyNone]
CmdRef(c) == [tag |-> "cmd", cmd |-> <<c>>, val |-> PyNone]
ValRef(v) == [tag |-> "val", cmd |-> <<>>, val |-> v]

\* f"last_{service}_command"
ServiceKey(service) ==
    CASE service = "gmail" -> "last_gmail_command"
      [] service = "calendar" -> "last_calendar_command"
      [] service = "drive" -> "last_drive_command"

\* error = None
NoError == ""

\* CommandResult(...): timestamp is the position in the session's timeline
CommandResult(h, service, intent, result, success, error) ==
    [timestamp |-> Len(h) + 1, service |-> service, intent |-> intent,
     result |-> result, success |-> success, error |-> error]

\* the service / intent specific branches of _update_references
DesignatedReferences(refs, c) ==
    CASE c.service = "gmail" /\ c.intent = "search_email" ->
             IF IsList(c.result) /\ Len(c.result.items) > 0
             THEN [refs EXCEPT !["last_emails"] = ValRef(c.result),
                               !["last_email"] = ValRef(Elem(c.result, 1))]
             ELSE [refs EXCEPT !["last_emails"] = ValRef(c.result)]
      [] c.service = "gmail" /\ c.intent = "send_email" ->
             [refs EXCEPT !["last_sent_email"] = ValRef(c.result)]
      [] c.service = "calendar" /\ c.intent \in {"list_events", "search_event"} ->
             IF IsList(c.result) /\ Len(c.result.items) > 0
             THEN [refs EXCEPT !["last_events"] = ValRef(c.result),
                               !["last_event"] = ValRef(Elem(c.result, 1)),
                               !["next_meeting"] = ValRef(Elem(c.result, 1))]
             ELSE [refs EXCEPT !["last_events"] = ValRef(c.result)]
      [] c.service = "calendar" /\ c.intent = "create_event" ->
             [refs EXCEPT !["last_created_event"] = ValRef(c.result)]
      [] c.service = "drive" /\ c.intent = "search_file" ->
             IF IsList(c.result) /\ Len(c.result.items) > 0
             THEN [refs EXCEPT !["last_files"] = ValRef(c.result),
                               !["last_file"] = ValRef(Elem(c.result, 1))]
             ELSE [refs EXCEPT !["last_files"] = ValRef(c.result)]
      [] OTHER -> refs

\* the guard without the success test
EntityReferences_IgnoreSuccess(refs, c) ==
    IF Truthy(c.result) THEN DesignatedReferences(refs, c) ELSE refs

\* the guarded part of _update_references: if cmd_result.success and cmd_result.result
EntityReferences(refs, c) ==
    IF c.success /\ Truthy(c.result) THEN DesignatedReferences(refs, c) ELSE refs

\* the command references written for successful commands only
UpdateReferences_SuccessOnly(refs, c) ==
    IF c.success
    THEN EntityReferences([refs EXCEPT ![ServiceKey(c.service)] = CmdRef(c),
                                       !["last_command"] = CmdRef(c)], c)
    ELSE refs

\* the per-service command reference left out
UpdateReferences_NoServiceKey(refs, c) ==
    EntityReferences([refs EXCEPT !["last_command"] = CmdRef(c)], c)

\* SessionContext._update_references
UpdateReferences(refs, c) ==
    EntityReferences([refs EXCEPT ![ServiceKey(c.service)] = CmdRef(c),
                                  !["last_command"] = CmdRef(c)], c)

\* SessionContext.get_last_command: history[-1] if history else None
GetLastCommand(h) == IF Len(h) > 0 THEN <<h[Len(h)]>> ELSE <<>>

\* SessionContext.get_last_n_commands: history[-n:] if history else []
GetLastN(h, n) ==
    IF Len(h) = 0 THEN <<>>
    ELSE IF n = 0 \/ n >= Len(h) THEN h
    ELSE SubSeq(h, Len(h) - n + 1, Len(h))

(***************************************************************************)
(* Commands are lower-cased word sequences; a phrase occurs in a command   *)
(* when its words occur contiguously.                                      *)
(***************************************************************************)
Contains(text, phrase) ==
    \E k \in 1..(Len(text) - Len(phrase) + 1) :
        SubSeq(text, k, k + Len(phrase) - 1) = phrase

ContainsAny(text, phrases) == \E p \in phrases : Contains(text, p)

\* references.get(key): None when the key is absent
RefGet(refs, key) == IF refs[key].tag = "val" THEN refs[key].val ELSE PyNone

NoReference == [kind |-> "none", entity |-> PyNone]

\* the positional part without the test that the index exists
ResolvePositional_Unchecked(h, text) ==
    LET last == GetLastCommand(h)
        item(k) == IF IsList(last[1].result) /\ Len(last[1].result.items) > k - 1
                   THEN Elem(last[1].result, k)
                   ELSE PyNone
    IN  IF Contains(text, <<"first">>) /\ Len(last) > 0
        THEN [kind |-> last[1].service, entity |-> item(1)]
        ELSE IF Contains(text, <<"second">>) /\ Len(last) > 0
        THEN [kind |-> last[1].service, entity |-> item(2)]
        ELSE NoReference

\* the positional part of resolve_reference ("first one" / "second one")
ResolvePositional(h, text) ==
    LET last == GetLastCommand(h)
        hit(k) == /\ Len(last) > 0
                  /\ Truthy(last[1].result)
                  /\ IsList(last[1].result)
                  /\ Len(last[1].result.items) > k - 1
    IN  IF (Contains(text, <<"first", "one">>) \/ Contains(text, <<"first">>)) /\ hit(1)
        THEN [kind |-> last[1].service, entity |-> Elem(last[1].result, 1)]
        ELSE IF (Contains(text, <<"second", "one">>) \/ Contains(text, <<"second">>)) /\ hit(2)
        THEN [kind |-> last[1].service, entity |-> Elem(last[1].result, 2)]
        ELSE NoReference

\* resolve_reference asking for the meeting phrases before the email phrases
ResolveReference_MeetingFirst(h, refs, text) ==
    IF ContainsAny(text, {<<"that", "meeting">>, <<"the", "meeting">>, <<"this", "meeting">>})
    THEN [kind |-> "event", entity |-> RefGet(refs, "last_event")]
    ELSE IF ContainsAny(text, {<<"that", "email">>, <<"the", "email">>, <<"this", "email">>,
                               <<"last", "email">>})
    THEN [kind |-> "email", entity |-> RefGet(refs, "last_email")]
    ELSE IF ContainsAny(text, {<<"next", "meeting">>, <<"upcoming", "meeting">>})
    THEN [kind |-> "event", entity |-> RefGet(refs, "next_meeting")]
    ELSE IF ContainsAny(text, {<<"that", "file">>, <<"the", "file">>, <<"this", "file">>})
    THEN [kind |-> "file", entity |-> RefGet(refs, "last_file")]
    ELSE ResolvePositional(h, text)

\* SessionContext.resolve_reference
ResolveReference(h, refs, text) ==
    LET last == GetLastCommand(h)
    IN  IF ContainsAny(text, {<<"that", "email">>, <<"the", "email">>, <<"this", "email">>})
        THEN [kind |-> "email", entity |-> RefGet(refs, "last_email")]
        ELSE IF Contains(text, <<"last", "email">>)
        THEN [kind |-> "email", entity |-> RefGet(refs, "last_email")]
        ELSE IF ContainsAny(text, {<<"that", "meeting">>, <<"the", "meeting">>, <<"this", "meeting">>})
        THEN [kind |-> "event", entity |-> RefGet(refs, "last_event")]
        ELSE IF ContainsAny(text, {<<"next", "meeting">>, <<"upcoming", "meeting">>})
        THEN [kind |-> "event", entity |-> RefGet(refs, "next_meeting")]
        ELSE IF ContainsAny(text, {<<"that", "file">>, <<"the", "file">>, <<"this", "file">>})
        THEN [kind |-> "file", entity |-> RefGet(refs, "last_file")]
        ELSE IF text \in {<<"it">>, <<"that">>, <<"this">>} /\ Len(last) > 0
                /\ last[1].service \in {"gmail", "calendar", "drive"}
        THEN CASE last[1].service = "gmail" ->
                    [kind |-> "email", entity |-> RefGet(refs, "last_email")]
               [] last[1].service = "calendar" ->
                    [kind |-> "event", entity |-> RefGet(refs, "last_event")]
               [] last[1].service = "drive" ->
                    [kind |-> "file", entity |-> RefGet(refs, "last_file")]
        ELSE ResolvePositional(h, text)

\* SessionContext.get_context_summary: the recent commands and the
\* reference names the summary lists
ContextSummary(h, refs) ==
    IF Len(h) = 0
    THEN [recent |-> <<>>, refs |-> {}]
    ELSE [recent |-> GetLastN(h, 3),
          refs |-> {k \in {"last_email", "next_meeting", "last_file"} : refs[k].tag # "absent"}]

(***************************************************************************)
(* Inputs of the session operations                                        *)
(***************************************************************************)
\* (service, intent) of the recorded commands: the designated pairs, a pair
\* without an entity reference and one mismatched pair per service
Commands == {<<"gmail", "search_email">>, <<"calendar", "list_events">>,
             <<"calendar", "search_event">>, <<"drive", "search_file">>,
             <<"gmail", "send_email">>, <<"gmail", "search_file">>,
             <<"calendar", "search_email">>, <<"drive", "list_events">>}

\* (result, success, error) of the recorded commands
Outcomes == {<<PyList(<<"e1">>), FALSE, "service error">>, <<PyList(<<>>), TRUE, NoError>>,
             <<PyList(<<"e2", "e1">>), TRUE, NoError>>, <<PyDict("e1"), TRUE, NoError>>}

Texts == {<<"read", "that", "email">>, <<"my", "next", "meeting">>,
          <<"it">>, <<"open", "the", "first", "one">>}

EmptyReferences == [k \in RefKeys |-> Absent]

(***************************************************************************)
(* Operations of SessionContext                                            *)
(***************************************************************************)
nonSessionVars == <<dry_run, undo_stack, recorded, streak, popped, auto_confirm, calls,
                    pc, steps, step_i, completed_steps, failed_steps, results,
                    attempted, entry_len>>

\* add_command keeping only the newest record
AddCommand_Window(service, intent, result, success, error) ==
    /\ Len(history) < MaxHistory
    /\ LET c == CommandResult(history, service, intent, result, success, error)
       IN  /\ history' = <<c>>
           /\ references' = UpdateReferences(references, c)
    /\ ret' = [op |-> "add_command"]
    /\ UNCHANGED nonSessionVars

\* SessionContext.add_command
AddCommand(service, intent, result, success, error) ==
    /\ Len(history) < MaxHistory
    /\ LET c == CommandResult(history, service, intent, result, success, error)
       IN  /\ history' = Append(history, c)
           /\ references' = UpdateReferences(references, c)
    /\ ret' = [op |-> "add_command"]
    /\ UNCHANGED nonSessionVars

\* SessionContext.clear_history
ClearHistory ==
    /\ history' = <<>>
    /\ references' = EmptyReferences
    /\ ret' = [op |-> "clear_history"]
    /\ UNCHANGED nonSessionVars

\* a call of SessionContext.get_last_command
CallGetLastCommand ==
    /\ ret' = [op |-> "get_last_command", val |-> GetLastCommand(history)]
    /\ UNCHANGED <<sessionVars, nonSessionVars>>

\* a call of SessionContext.get_last_n_commands
CallGetLastN(n) ==
    /\ ret' = [op |-> "get_last_n_commands", val |-> GetLastN(history, n)]
    /\ UNCHANGED <<sessionVars, nonSessionVars>>

\* a resolve_reference that takes the entity out of the session
CallResolveReference_Consuming(text) ==
    LET val == ResolveReference(history, references, text)
    IN  /\ ret' = [op |-> "resolve_reference", text |-> text, val |-> val]
        /\ references' = [k \in RefKeys |->
                              IF references[k].tag = "val" /\ references[k].val = val.entity
                              THEN Absent ELSE references[k]]
        /\ UNCHANGED <<history, nonSessionVars>>

\* a call of SessionContext.resolve_reference
CallResolveReference(text) ==
    /\ ret' = [op |-> "resolve_reference", text |-> text,
               val |-> ResolveReference(history, references, text)]
    /\ UNCHANGED <<sessionVars, nonSessionVars>>

\* a call of SessionContext.get_context_summary
CallGetContextSummary ==
    /\ ret' = [op |-> "get_context_summary", val |-> ContextSummary(history, references)]
    /\ UNCHANGED <<sessionVars, nonSessionVars>>

\* ContextInferenceEngine._infer_meeting_params as infer_parameters runs it:
\* the lookup of the next meeting and its write to the session
InferMeetingParams(text, intent, events) ==
    /\ intent \in {"search_event", "update_event", "delete_event", "list_events"}
    /\ ContainsAny(text, {<<"next", "meeting">>, <<"upcoming", "meeting">>})
    /\ IF Truthy(events)
       THEN /\ references' = [references EXCEPT !["next_meeting"] = ValRef(Elem(events, 1))]
            /\ ret' = [op |-> "infer_parameters", val |-> Elem(events, 1)]
       ELSE /\ references' = references
            /\ ret' = [op |-> "infer_parameters", val |-> PyNone]
    /\ UNCHANGED <<history, nonSessionVars>>

InitSession ==
    /\ history = <<>>
    /\ references = EmptyReferences
    /\ ret = [op |-> "init"]
    /\ dry_run = FALSE
    /\ undo_stack = <<>>
    /\ recorded = 0
    /\ streak = 0
    /\ popped = 0
    /\ auto_confirm = FALSE
    /\ calls = <<>>
    /\ pc = "idle"
    /\ steps = <<>>
    /\ step_i = 0
    /\ completed_steps = <<>>
    /\ failed_steps = <<>>
    /\ results = <<>>
    /\ attempted = <<>>
    /\ entry_len = 0

NextSession ==
    \/ \E c \in Commands, o \in Outcomes : AddCommand(c[1], c[2], o[1], o[2], o[3])
    \/ ClearHistory
    \/ CallGetLastCommand
    \/ \E n \in 0..2 : CallGetLastN(n)
    \/ \E text \in Texts : CallResolveReference(text)
    \/ CallGetContextSummary
    \/ \E text \in Texts, events \in {PyList(<<>>), PyList(<<"e2">>)} :
           InferMeetingParams(text, "list_events", events)

SpecSession == InitSession /\ [][NextSession]_vars

(***************************************************************************)
(* resolve_reference over the sessions that searches and lookups build     *)
(***************************************************************************)
\* the texts resolve_reference is asked about: one per pattern, texts that
\* match two patterns, and a text that matches none
ResolveTexts ==
    {<<"read", "that", "email">>, <<"forward", "the", "last", "email">>,
     <<"attach", "that", "email", "to", "that", "meeting">>,
     <<"cancel", "that", "meeting">>, <<"my", "next", "meeting">>,
     <<"open", "the", "file">>, <<"the", "first", "file", "for", "the", "meeting">>,
     <<"it">>, <<"open", "the", "first", "one">>, <<"the", "second", "one">>,
     <<"hello", "there">>}

\* the searches that fill the session
ResolveCommands == {<<"gmail", "search_email">>, <<"calendar", "list_events">>,
                    <<"drive", "search_file">>, <<"gmail", "send_email">>}

NextResolve ==
    \/ \E c \in ResolveCommands, o \in Outcomes : AddCommand(c[1], c[2], o[1], o[2], o[3])
    \/ ClearHistory
    \/ \E text \in ResolveTexts : CallResolveReference(text)
    \/ InferMeetingParams(<<"my", "next", "meeting">>, "list_events", PyList(<<"e2">>))

\* SessionContext(session_id)
InitResolve == InitSession

SpecResolve == InitResolve /\ [][NextResolve]_vars

\* the commands and the results of a session whose searches find different
\* entities: a first hit e1, a first hit e2, nothing, a failure, and a dict
ReferenceCommands == ResolveCommands \cup {<<"calendar", "search_event">>,
                                           <<"calendar", "search_email">>}

ReferenceOutcomes == Outcomes \cup {<<PyList(<<"e1">>), TRUE, NoError>>}

NextReferences ==
    \/ \E c \in ReferenceCommands, o \in ReferenceOutcomes :
           AddCommand(c[1], c[2], o[1], o[2], o[3])
    \/ ClearHistory
    \/ InferMeetingParams(<<"my", "next", "meeting">>, "list_events", PyList(<<"e2">>))

SpecReferences == InitSession /\ [][NextReferences]_vars

(***************************************************************************)
(* SafetyManager: the undo stack                                           *)
(***************************************************************************)
max_undo_actions == 10

\* the (action_type, undo_data) pairs recorded: undo_data is None or a
\* mapping that holds the data of the reversal
UndoKinds == {<<"send_email", "none">>, <<"share_file", "data">>}

UndoAction(action_type, resource_id, undo_data) ==
    [action_type |-> action_type, resource_id |-> resource_id, undo_data |-> undo_data]

\* bool(action.undo_data)
HasUndoData(action) == action.undo_data = "data"

\* the eviction taking the newest entry instead of the oldest
Record_EvictNewest(stack, action) ==
    IF Len(stack) + 1 > max_undo_actions THEN stack ELSE Append(stack, action)

\* SafetyManager.record_action on the stack: append, then pop(0) when over capacity
Record(stack, action) ==
    IF Len(stack) + 1 > max_undo_actions
    THEN Tail(Append(stack, action))
    ELSE Append(stack, action)

\* SafetyManager.get_last_action: undo_stack[-1] if undo_stack else None
GetLastAction(stack) == IF Len(stack) > 0 THEN <<stack[Len(stack)]>> ELSE <<>>

\* SafetyManager.pop_last_action on the stack
Pop(stack) == IF Len(stack) > 0 THEN SubSeq(stack, 1, Len(stack) - 1) ELSE stack

nonSafetyVars == <<history, references, auto_confirm, calls, pc, steps, step_i,
                   completed_steps, failed_steps, results, attempted, entry_len>>

\* a call of SafetyManager.record_action; the resource id is the ordinal of
\* the call
RecordAction(action_type, undo_data) ==
    /\ recorded < MaxRecorded
    /\ undo_stack' = Record(undo_stack, UndoAction(action_type, recorded + 1, undo_data))
    /\ recorded' = recorded + 1
    /\ streak' = streak + 1
    /\ ret' = [op |-> "record_action"]
    /\ UNCHANGED <<dry_run, popped, nonSafetyVars>>

\* a call of SafetyManager.pop_last_action
PopLastAction ==
    /\ popped < MaxPopped
    /\ undo_stack' = Pop(undo_stack)
    /\ popped' = popped + 1
    /\ streak' = 0
    /\ ret' = [op |-> "pop_last_action", val |-> GetLastAction(undo_stack)]
    /\ UNCHANGED <<dry_run, recorded, nonSafetyVars>>

\* SafetyManager.clear_undo_stack
ClearUndoStack ==
    /\ undo_stack' = <<>>
    /\ streak' = 0
    /\ ret' = [op |-> "clear_undo_stack"]
    /\ UNCHANGED <<dry_run, recorded, popped, nonSafetyVars>>

\* SafetyManager.set_dry_run
SetDryRun(enabled) ==
    /\ dry_run' = enabled
    /\ ret' = [op |-> "set_dry_run"]
    /\ UNCHANGED <<undo_stack, recorded, streak, popped, nonSafetyVars>>

\* undo_last_action popping whatever is on top
UndoLastAction_PopAnyway(confirm) ==
    /\ (Len(undo_stack) > 0 /\ confirm) => popped < MaxPopped
    /\ IF Len(undo_stack) = 0
       THEN /\ ret' = [op |-> "undo_last_action", val |-> "no_actions"]
            /\ UNCHANGED <<undo_stack, streak, popped>>
       ELSE IF ~confirm
       THEN /\ ret' = [op |-> "undo_last_action", val |-> "cancelled"]
            /\ UNCHANGED <<undo_stack, streak, popped>>
       ELSE /\ undo_stack' = Pop(undo_stack)
            /\ popped' = popped + 1
            /\ streak' = 0
            /\ ret' = [op |-> "undo_last_action", val |-> "popped"]
    /\ UNCHANGED <<dry_run, recorded, nonSafetyVars>>

\* Orchestrator.undo_last_action; confirm is the answer to "Proceed with undo?"
UndoLastAction(confirm) ==
    /\ (Len(undo_stack) > 0 /\ confirm) => popped < MaxPopped
    /\ IF Len(undo_stack) = 0
       THEN /\ ret' = [op |-> "undo_last_action", val |-> "no_actions"]
            /\ UNCHANGED <<undo_stack, streak, popped>>
       ELSE IF ~HasUndoData(GetLastAction(undo_stack)[1])
       THEN /\ ret' = [op |-> "undo_last_action", val |-> "cannot_undo"]
            /\ UNCHANGED <<undo_stack, streak, popped>>
       ELSE IF ~confirm
       THEN /\ ret' = [op |-> "undo_last_action", val |-> "cancelled"]
            /\ UNCHANGED <<undo_stack, streak, popped>>
       ELSE /\ undo_stack' = Pop(undo_stack)
            /\ popped' = popped + 1
            /\ streak' = 0
            /\ ret' = [op |-> "undo_last_action", val |-> "popped"]
    /\ UNCHANGED <<dry_run, recorded, nonSafetyVars>>

InitUndo ==
    /\ history = <<>>
    /\ references = EmptyReferences
    /\ ret = [op |-> "init"]
    /\ dry_run = FALSE
    /\ undo_stack = <<>>
    /\ recorded = 0
    /\ streak = 0
    /\ popped = 0
    /\ auto_confirm = FALSE
    /\ calls = <<>>
    /\ pc = "idle"
    /\ steps = <<>>
    /\ step_i = 0
    /\ completed_steps = <<>>
    /\ failed_steps = <<>>
    /\ results = <<>>
    /\ attempted = <<>>
    /\ entry_len = 0

NextUndo ==
    \/ \E k \in UndoKinds : RecordAction(k[1], k[2])
    \/ PopLastAction
    \/ ClearUndoStack
    \/ \E confirm \in BOOLEAN : UndoLastAction(confirm)

SpecUndo == InitUndo /\ [][NextUndo]_vars

(***************************************************************************)
(* Service calls.  A mutating call is logged in calls with its outcome:    *)
(* "ok" (it returned its result), "raise" (it raised) or "fail" (the drive *)
(* adapter caught the HTTP error and returned None / False).               *)
(***************************************************************************)
ServiceCall(method, outcome) == [method |-> method, outcome |-> outcome]

\* the outcomes a mutating call can have
CallOutcomes(method) ==
    IF method \in {"send_email", "create_event"} THEN {"ok", "raise"}
    ELSE {"ok", "fail", "raise"}

AllOutcomes == {"ok", "fail", "raise"}

(***************************************************************************)
(* WorkflowEngine and WorkflowContext                                      *)
(***************************************************************************)
\* depends_on = None
NoDep == -1

WorkflowStep(service, intent, parameters, depends_on) ==
    [service |-> service, intent |-> intent, parameters |-> parameters,
     depends_on |-> depends_on]

\* WorkflowEngine.create_workflow: one step per operation, in order
CreateWorkflow(operations) ==
    [k \in 1..Len(operations) |->
        WorkflowStep(operations[k].service, operations[k].intent,
                     operations[k].parameters, operations[k].depends_on)]

Range(seq) == {seq[k] : k \in 1..Len(seq)}

\* can_execute_step ignoring the completed steps
CanExecuteStep_Always(step, completed) == TRUE

\* WorkflowEngine.can_execute_step
CanExecuteStep(step, completed) ==
    IF step.depends_on = NoDep THEN TRUE ELSE step.depends_on \in Range(completed)

\* a dict that holds an event: its id ("" when it has none) and its attendees
PyEvent(e, attendees) ==
    [kind |-> "dict", items |-> <<>>, id |-> e, attendees |-> attendees]

\* 'id' in d and 'attendees' in d, for a dict d
HasId(d) == d.id # ""
HasAttendees(d) == "attendees" \in DOMAIN d

\* key in parameters; the parameters of a step map each key that is set to
\* its value
HasParam(parameters, key) == key \in DOMAIN parameters

\* parameters[key] = value
SetParam(parameters, key, value) == (key :> value) @@ parameters

\* [a.get('email') for a in attendees if 'email' in a]
AttendeeEmails(attendees) ==
    LET with_email == SelectSeq(attendees, LAMBDA a : "email" \in DOMAIN a)
    IN  [k \in 1..Len(with_email) |-> with_email[k].email]

\* inject_context writing the id of the dependency over the step's own
InjectContext_Overwrite(step, previous_results) ==
    IF step.depends_on # NoDep /\ step.depends_on \in DOMAIN previous_results
    THEN LET dependency_result == previous_results[step.depends_on]
         IN  IF dependency_result.kind = "dict" /\ HasId(dependency_result)
             THEN [step EXCEPT !.parameters =
                       SetParam(@, "id", PyStr(dependency_result.id))]
             ELSE IF dependency_result.kind = "list"
             THEN [step EXCEPT !.parameters = SetParam(@, "items", dependency_result)]
             ELSE step
    ELSE step

\* WorkflowEngine.inject_context
InjectContext(step, previous_results) ==
    IF step.depends_on # NoDep /\ step.depends_on \in DOMAIN previous_results
    THEN LET dependency_result == previous_results[step.depends_on]
             with_id ==
                 IF HasId(dependency_result) /\ ~HasParam(step.parameters, "id")
                 THEN SetParam(step.parameters, "id", PyStr(dependency_result.id))
                 ELSE step.parameters
             with_emails ==
                 IF /\ HasAttendees(dependency_result)
                    /\ ~HasParam(with_id, "emails")
                    /\ IsList(dependency_result.attendees)
                 THEN SetParam(with_id, "emails",
                               PyList(AttendeeEmails(dependency_result.attendees.items)))
                 ELSE with_id
         IN  IF dependency_result.kind = "dict"
             THEN [step EXCEPT !.parameters = with_emails]
             ELSE IF dependency_result.kind = "list"
                     /\ ~HasParam(step.parameters, "ids")
             THEN [step EXCEPT !.parameters = SetParam(@, "items", dependency_result)]
             ELSE step
    ELSE step

\* Orchestrator._execute_step: what the step does for one outcome of its
\* service call: whether it raises, the result it returns and the mutating
\* calls it makes
ExecuteStep(step, outcome) ==
    CASE step.service = "gmail" /\ step.intent = "send_email" ->
             IF ~({"subject", "body"} \subseteq DOMAIN step.parameters)
             THEN [raised |-> TRUE, result |-> PyNone, calls |-> <<>>]
             ELSE IF outcome = "ok"
             THEN [raised |-> FALSE, result |-> PyDict("e1"),
                   calls |-> <<ServiceCall("send_email", "ok")>>]
             ELSE [raised |-> TRUE, result |-> PyNone,
                   calls |-> <<ServiceCall("send_email", "raise")>>]
      [] step.service = "calendar" /\ step.intent = "create_event" ->
             IF ~({"summary", "start_time"} \subseteq DOMAIN step.parameters)
             THEN [raised |-> TRUE, result |-> PyNone, calls |-> <<>>]
             ELSE IF outcome = "ok"
             THEN [raised |-> FALSE, result |-> PyDict("e2"),
                   calls |-> <<ServiceCall("create_event", "ok")>>]
             ELSE [raised |-> TRUE, result |-> PyNone,
                   calls |-> <<ServiceCall("create_event", "raise")>>]
      [] step.service = "drive" /\ step.intent = "search_file" ->
             IF outcome = "ok"
             THEN [raised |-> FALSE, result |-> PyList(<<"e1">>), calls |-> <<>>]
             ELSE IF outcome = "fail"
             THEN [raised |-> FALSE, result |-> PyList(<<>>), calls |-> <<>>]
             ELSE [raised |-> TRUE, result |-> PyNone, calls |-> <<>>]
      [] step.service = "drive" /\ step.intent = "create_folder" ->
             IF ~HasParam(step.parameters, "name")
             THEN [raised |-> FALSE, result |-> PyNone, calls |-> <<>>]
             ELSE IF outcome = "raise"
             THEN [raised |-> TRUE, result |-> PyNone,
                   calls |-> <<ServiceCall("create_folder", "raise")>>]
             ELSE [raised |-> FALSE, result |-> PyNone,
                   calls |-> <<ServiceCall("create_folder", outcome)>>]
      [] step.service \notin Services ->
             [raised |-> TRUE, result |-> PyNone, calls |-> <<>>]
      [] OTHER -> [raised |-> FALSE, result |-> PyNone, calls |-> <<>>]

\* a parameter value the language model filled in
Given == PyStr("given")

\* the operations a multi-service intent is made of
Operations ==
    {[service |-> "gmail", intent |-> "send_email",
      parameters |-> [to |-> Given, subject |-> Given, body |-> Given]],
     [service |-> "gmail", intent |-> "send_email",
      parameters |-> [to |-> Given, body |-> Given]],
     [service |-> "gmail", intent |-> "send_email",
      parameters |-> [subject |-> Given, body |-> Given]],
     [service |-> "calendar", intent |-> "create_event",
      parameters |-> [summary |-> Given, start_time |-> Given]],
     [service |-> "drive", intent |-> "search_file", parameters |-> [query |-> Given]],
     [service |-> "drive", intent |-> "create_folder", parameters |-> [name |-> Given]]}

\* depends_on of an operation: unset, or an index (MaxSteps names no step)
Dependencies == {NoDep} \cup (0..MaxSteps)

OperationLists ==
    UNION {[1..n -> {[service |-> o.service, intent |-> o.intent,
                      parameters |-> o.parameters, depends_on |-> dep] :
                         o \in Operations, dep \in Dependencies}] : n \in 1..MaxSteps}

nonWorkflowVars == <<history, references, dry_run, undo_stack, recorded, streak, popped,
                     auto_confirm>>

\* process_command on a multi-service command: _execute_workflow up to its loop
StartWorkflow(operations) ==
    /\ pc = "idle"
    /\ steps' = CreateWorkflow(operations)
    /\ step_i' = 0
    /\ completed_steps' = <<>>
    /\ failed_steps' = <<>>
    /\ results' = <<>>
    /\ attempted' = <<>>
    /\ pc' = "workflow"
    /\ entry_len' = Len(history)
    /\ ret' = [op |-> "execute_workflow", val |-> "started"]
    /\ UNCHANGED <<calls, nonWorkflowVars>>

\* the loop trying the failed step again
AfterFailure_Retry(i, n, auto, continue) == IF ~auto /\ ~continue THEN n ELSE i

\* the loop stopping at the first failed step
AfterFailure_Break(i, n, auto, continue) == n

\* where the loop of _execute_workflow goes after step i of n failed: on to
\* step i + 1, or out of the loop (break) when the user declines
AfterFailure(i, n, auto, continue) == IF ~auto /\ ~continue THEN n ELSE i + 1

\* one iteration of the loop of _execute_workflow, for step index step_i;
\* continue is the answer to "Continue with remaining steps?"
RunStep(outcome, continue) ==
    /\ pc = "workflow"
    /\ step_i < Len(steps)
    /\ LET step == steps[step_i + 1]
       IN  IF ~CanExecuteStep(step, completed_steps)
           THEN /\ step_i' = step_i + 1
                /\ ret' = [op |-> "execute_workflow", val |-> "waiting"]
                /\ UNCHANGED <<steps, completed_steps, failed_steps, results,
                               attempted, calls>>
           ELSE LET injected == InjectContext(step, results)
                    run == ExecuteStep(injected, outcome)
                IN  /\ steps' = [steps EXCEPT ![step_i + 1] = injected]
                    /\ attempted' = Append(attempted,
                                           [index |-> step_i, completed |-> completed_steps])
                    /\ calls' = calls \o run.calls
                    /\ IF run.raised
                       THEN /\ failed_steps' = Append(failed_steps, step_i)
                            /\ UNCHANGED <<completed_steps, results>>
                            /\ step_i' = AfterFailure(step_i, Len(steps),
                                                       auto_confirm, continue)
                            /\ ret' = [op |-> "execute_workflow",
                                       val |-> IF ~auto_confirm /\ ~continue
                                               THEN "aborted" ELSE "failed"]
                       ELSE /\ results' = (step_i :> run.result) @@ results
                            /\ completed_steps' = Append(completed_steps, step_i)
                            /\ UNCHANGED failed_steps
                            /\ step_i' = step_i + 1
                            /\ ret' = [op |-> "execute_workflow", val |-> "completed"]
    /\ UNCHANGED <<pc, entry_len, nonWorkflowVars>>

\* the end of _execute_workflow: the summary is printed and process_command
\* returns
FinishWorkflow ==
    /\ pc = "workflow"
    /\ step_i = Len(steps)
    /\ pc' = "done"
    /\ ret' = [op |-> "execute_workflow",
               val |-> [completed |-> Len(completed_steps), failed |-> Len(failed_steps)]]
    /\ UNCHANGED <<steps, step_i, completed_steps, failed_steps, results, attempted,
                   calls, entry_len, nonWorkflowVars>>

InitWorkflow ==
    /\ history = <<>>
    /\ references = EmptyReferences
    /\ ret = [op |-> "init"]
    /\ dry_run \in BOOLEAN
    /\ undo_stack = <<>>
    /\ recorded = 0
    /\ streak = 0
    /\ popped = 0
    /\ auto_confirm \in BOOLEAN
    /\ calls = <<>>
    /\ pc = "idle"
    /\ steps = <<>>
    /\ step_i = 0
    /\ completed_steps = <<>>
    /\ failed_steps = <<>>
    /\ results = <<>>
    /\ attempted = <<>>
    /\ entry_len = 0

NextWorkflow ==
    \/ pc = "idle" /\ \E operations \in OperationLists : StartWorkflow(operations)
    \/ \E outcome \in AllOutcomes, continue \in BOOLEAN : RunStep(outcome, continue)
    \/ FinishWorkflow

SpecWorkflow == InitWorkflow /\ [][NextWorkflow]_vars

(***************************************************************************)
(* WorkflowEngine called on its own: can_execute_step and inject_context   *)
(* applied to steps, completed lists and previous results of every shape.  *)
(***************************************************************************)
\* the parameters a step has before injection: any of these keys, each with
\* a value of the step's own
OwnParameters ==
    [id |-> PyStr("own"), emails |-> PyList(<<"own@example.com">>),
     ids |-> PyList(<<"e2">>), items |-> PyList(<<"e2">>), query |-> Given]

ParameterDicts == {[k \in keys |-> OwnParameters[k]] : keys \in SUBSET DOMAIN OwnParameters}

\* the steps handed to the engine
EngineSteps ==
    {WorkflowStep("drive", "share_file", parameters, dep) :
         parameters \in ParameterDicts, dep \in {NoDep, 0, 1}}

\* completed_steps: the lists of distinct indices below MaxSteps
CompletedLists ==
    {c \in UNION {[1..n -> 0..(MaxSteps - 1)] : n \in 0..MaxSteps} :
         \A j, k \in 1..Len(c) : j # k => c[j] # c[k]}

\* the results a dependency can have left: None, lists, dicts with or
\* without id and attendees, a string
DependencyResults ==
    {PyNone, PyStr("done"), PyList(<<>>), PyList(<<"e1", "e2">>),
     PyDict("e1"), PyDict(""),
     PyEvent("e1", PyList(<<[email |-> "a@example.com"], [name |-> "bo"],
                            [email |-> "c@other.org"]>>)),
     PyEvent("", PyList(<<>>)),
     PyEvent("e2", PyStr("a@example.com"))}

\* previous_results: empty, or the result of step 0
PreviousResults == {<<>>} \cup {0 :> r : r \in DependencyResults}

nonRetVars == <<history, references, dry_run, undo_stack, recorded, streak, popped,
                auto_confirm, calls, pc, steps, step_i, completed_steps, failed_steps,
                results, attempted, entry_len>>

\* a call of WorkflowEngine.can_execute_step
CallCanExecuteStep(step, completed) ==
    /\ ret' = [op |-> "can_execute_step", step |-> step, completed_steps |-> completed,
               val |-> CanExecuteStep(step, completed)]
    /\ UNCHANGED nonRetVars

\* a call of WorkflowEngine.inject_context
CallInjectContext(step, previous_results) ==
    /\ ret' = [op |-> "inject_context", step |-> step,
               previous_results |-> previous_results,
               val |-> InjectContext(step, previous_results)]
    /\ UNCHANGED nonRetVars

NextEngine ==
    \/ \E step \in EngineSteps, completed \in CompletedLists :
           CallCanExecuteStep(step, completed)
    \/ \E step \in EngineSteps, previous_results \in PreviousResults :
           CallInjectContext(step, previous_results)

\* WorkflowEngine() next to a fresh session
InitEngine == InitSession

SpecEngine == InitEngine /\ [][NextEngine]_vars

(***************************************************************************)
(* SafetyManager: the confirmation policy.  An email address is a sequence *)
(* of pieces of text; lower() works piece by piece and a piece occurs in   *)
(* the address when it is one of its pieces.                               *)
(***************************************************************************)
MaxRecipients == 4    \* addresses in the to list of an email
MaxActions == 1       \* record_action calls next to the policy calls

\* the list in is_destructive
destructive_intents ==
    {"delete_email", "delete_event", "delete_file", "move_file", "send_email",
     "share_file", "update_event", "update_file"}

\* is_destructive knowing only the delete intents
IsDestructive_DeleteOnly(intent) ==
    intent \in {"delete_email", "delete_event", "delete_file"}

\* SafetyManager.is_destructive
IsDestructive(intent) == intent \in destructive_intents

\* str.lower() on a piece of an address
Lower(piece) ==
    CASE piece = "@EXAMPLE.COM" -> "@example.com"
      [] piece = "Sam" -> "sam"
      [] OTHER -> piece

\* SafetyManager._is_internal_email: '@example.com' in email.lower()
IsInternalEmail(email) == \E k \in 1..Len(email) : Lower(email[k]) = "@example.com"

\* parameters.get(key, default)
GetParam(parameters, key, default) ==
    IF HasParam(parameters, key) THEN parameters[key] ELSE default

\* requires_confirmation without the test of is_destructive
RequiresConfirmation_ExtraOnly(intent, parameters) ==
    LET recipients == GetParam(parameters, "to", PyList(<<>>))
        email == GetParam(parameters, "email", <<>>)
    IN  IF intent = "send_email" /\ IsList(recipients) /\ Len(recipients.items) > 3
        THEN TRUE
        ELSE IF intent = "share_file" /\ Len(email) > 0 /\ ~IsInternalEmail(email)
        THEN TRUE
        ELSE FALSE

\* SafetyManager.requires_confirmation
RequiresConfirmation(intent, parameters) ==
    LET recipients == GetParam(parameters, "to", PyList(<<>>))
        email == GetParam(parameters, "email", <<>>)
    IN  IF IsDestructive(intent)
        THEN TRUE
        ELSE IF intent = "send_email" /\ IsList(recipients) /\ Len(recipients.items) > 3
        THEN TRUE
        ELSE IF intent = "share_file" /\ Len(email) > 0 /\ ~IsInternalEmail(email)
        THEN TRUE
        ELSE FALSE

\* the intent names the policy is asked about: the destructive ones and
\* others, among them the name _execute_gmail_step normalises send_email to
IntentNames ==
    destructive_intents \cup {"search_email", "list_events", "create_event",
                              "read_email", "sendemail"}

\* parameters["to"]: a list of addresses or a single address
Recipients ==
    {PyList([k \in 1..n |-> "sam@example.com"]) : n \in 0..MaxRecipients}
        \cup {PyStr("sam@example.com")}

\* parameters["email"]: empty, internal in either case, external, and an
\* external address that holds the internal domain
EmailAddresses ==
    {<<>>, <<"sam", "@example.com">>, <<"Sam", "@EXAMPLE.COM">>,
     <<"sam", "@other.org">>, <<"sam", "@example.com", ".other.org">>}

\* the parameters of the intents the policy is asked about
PolicyParameters ==
    {<<>>} \cup {[to |-> r] : r \in Recipients}
           \cup {[email |-> e] : e \in EmailAddresses}
           \cup {[to |-> r, email |-> e] : r \in Recipients, e \in EmailAddresses}

\* a call of SafetyManager.is_destructive
CallIsDestructive(intent) ==
    /\ ret' = [op |-> "is_destructive", intent |-> intent, val |-> IsDestructive(intent)]
    /\ UNCHANGED nonRetVars

\* a call of SafetyManager.requires_confirmation
CallRequiresConfirmation(intent, parameters) ==
    /\ ret' = [op |-> "requires_confirmation", intent |-> intent,
               parameters |-> parameters,
               val |-> RequiresConfirmation(intent, parameters)]
    /\ UNCHANGED nonRetVars

\* SafetyManager(dry_run)
InitPolicy ==
    /\ history = <<>>
    /\ references = EmptyReferences
    /\ ret = [op |-> "init"]
    /\ dry_run \in BOOLEAN
    /\ undo_stack = <<>>
    /\ recorded = 0
    /\ streak = 0
    /\ popped = 0
    /\ auto_confirm = FALSE
    /\ calls = <<>>
    /\ pc = "idle"
    /\ steps = <<>>
    /\ step_i = 0
    /\ completed_steps = <<>>
    /\ failed_steps = <<>>
    /\ results = <<>>
    /\ attempted = <<>>
    /\ entry_len = 0

NextPolicy ==
    \/ \E intent \in IntentNames : CallIsDestructive(intent)
    \/ \E intent \in IntentNames, parameters \in PolicyParameters :
           CallRequiresConfirmation(intent, parameters)
    \/ \E enabled \in BOOLEAN : SetDryRun(enabled)
    \/ recorded < MaxActions /\ \E k \in UndoKinds : RecordAction(k[1], k[2])

SpecPolicy == InitPolicy /\ [][NextPolicy]_vars

(***************************************************************************)
(* Orchestrator: the handlers of a single-shot command.  A handler gives   *)
(* whether it raised, the value it returned, the mutating calls it made,   *)
(* whether it recorded an UndoAction, and what it printed.                 *)
(***************************************************************************)
Handled(raised, result, made, record, report) ==
    [raised |-> raised, result |-> result, calls |-> made, record |-> record,
     report |-> report]

\* _handle_send_email recording the action before the call returns
HandleSendEmail_RecordFirst(parameters, dry, auto, confirm, outcome) ==
    IF ~({"to", "subject", "body"} \subseteq parameters)
    THEN Handled(FALSE, PyNone, <<>>, FALSE, "missing_parameters")
    ELSE IF dry
    THEN Handled(FALSE, PyNone, <<>>, FALSE, "dry_run")
    ELSE IF ~auto /\ ~confirm
    THEN Handled(FALSE, PyNone, <<>>, FALSE, "cancelled")
    ELSE IF outcome = "ok"
    THEN Handled(FALSE, PyNone, <<ServiceCall("send_email", "ok")>>, TRUE, "done")
    ELSE Handled(TRUE, PyNone, <<ServiceCall("send_email", "raise")>>, TRUE, "error")

\* Orchestrator._handle_send_email
HandleSendEmail(parameters, dry, auto, confirm, outcome) ==
    IF ~({"to", "subject", "body"} \subseteq parameters)
    THEN Handled(FALSE, PyNone, <<>>, FALSE, "missing_parameters")
    ELSE IF dry
    THEN Handled(FALSE, PyNone, <<>>, FALSE, "dry_run")
    ELSE IF ~auto /\ ~confirm
    THEN Handled(FALSE, PyNone, <<>>, FALSE, "cancelled")
    ELSE IF outcome = "ok"
    THEN Handled(FALSE, PyNone, <<ServiceCall("send_email", "ok")>>, TRUE, "done")
    ELSE Handled(TRUE, PyNone, <<ServiceCall("send_email", "raise")>>, FALSE, "error")

\* Orchestrator._handle_search_email
HandleSearchEmail(parameters, outcome) ==
    IF parameters \cap {"query", "from", "after", "before"} = {}
    THEN Handled(FALSE, PyNone, <<>>, FALSE, "missing_parameters")
    ELSE IF outcome = "ok"
    THEN Handled(FALSE, PyList(<<"e1">>), <<>>, FALSE, "done")
    ELSE IF outcome = "fail"
    THEN Handled(FALSE, PyList(<<>>), <<>>, FALSE, "done")
    ELSE Handled(TRUE, PyNone, <<>>, FALSE, "error")

\* Orchestrator._handle_create_event
HandleCreateEvent(parameters, auto, confirm, outcome) ==
    IF "summary" \notin parameters \/ "start_time" \notin parameters
    THEN Handled(FALSE, PyNone, <<>>, FALSE, "missing_parameters")
    ELSE IF ~auto /\ ~confirm
    THEN Handled(FALSE, PyNone, <<>>, FALSE, "cancelled")
    ELSE IF outcome = "ok"
    THEN Handled(FALSE, PyNone, <<ServiceCall("create_event", "ok")>>, FALSE, "done")
    ELSE Handled(TRUE, PyNone, <<ServiceCall("create_event", "raise")>>, FALSE, "error")

\* Orchestrator._handle_share_file
HandleShareFile(parameters, outcome) ==
    IF "file_id" \notin parameters \/ "email" \notin parameters
    THEN Handled(FALSE, PyNone, <<>>, FALSE, "missing_parameters")
    ELSE IF outcome = "raise"
    THEN Handled(TRUE, PyNone, <<ServiceCall("share_file", "raise")>>, FALSE, "error")
    ELSE Handled(FALSE, PyNone, <<ServiceCall("share_file", outcome)>>, FALSE,
                 IF outcome = "ok" THEN "done" ELSE "failed")

\* Orchestrator._handle_upload_file
HandleUploadFile(parameters, outcome) ==
    IF "local_path" \notin parameters
    THEN Handled(FALSE, PyNone, <<>>, FALSE, "missing_parameters")
    ELSE IF outcome = "raise"
    THEN Handled(TRUE, PyNone, <<ServiceCall("upload_file", "raise")>>, FALSE, "error")
    ELSE Handled(FALSE, PyNone, <<ServiceCall("upload_file", outcome)>>, FALSE,
                 IF outcome = "ok" THEN "done" ELSE "failed")

\* Orchestrator._handle_create_folder
HandleCreateFolder(parameters, outcome) ==
    IF "name" \notin parameters
    THEN Handled(FALSE, PyNone, <<>>, FALSE, "missing_parameters")
    ELSE IF outcome = "raise"
    THEN Handled(TRUE, PyNone, <<ServiceCall("create_folder", "raise")>>, FALSE, "error")
    ELSE Handled(FALSE, PyNone, <<ServiceCall("create_folder", outcome)>>, FALSE,
                 IF outcome = "ok" THEN "done" ELSE "failed")

\* the try block of process_command: _handle_gmail_intent,
\* _handle_calendar_intent and _handle_drive_intent
Dispatch(service, intent, parameters, dry, auto, confirm, outcome) ==
    CASE service = "gmail" /\ intent = "send_email" ->
             HandleSendEmail(parameters, dry, auto, confirm, outcome)
      [] service = "gmail" /\ intent = "search_email" ->
             HandleSearchEmail(parameters, outcome)
      [] service = "calendar" /\ intent = "create_event" ->
             HandleCreateEvent(parameters, auto, confirm, outcome)
      [] service = "drive" /\ intent = "share_file" ->
             HandleShareFile(parameters, outcome)
      [] service = "drive" /\ intent = "upload_file" ->
             HandleUploadFile(parameters, outcome)
      [] service = "drive" /\ intent = "create_folder" ->
             HandleCreateFolder(parameters, outcome)
      [] OTHER -> Handled(FALSE, PyNone, <<>>, FALSE, "not_implemented")

\* the single-shot commands: service, intent and the parameters that are set
SingleShots ==
    {<<"gmail", "send_email", {"to", "subject", "body"}>>,
     <<"gmail", "send_email", {"to", "subject"}>>,
     <<"gmail", "search_email", {"query"}>>,
     <<"calendar", "create_event", {"summary", "start_time"}>>,
     <<"drive", "share_file", {"file_id", "email"}>>,
     <<"drive", "upload_file", {"local_path"}>>,
     <<"drive", "create_folder", {"name"}>>,
     <<"gmail", "read_email", {}>>}

\* str(e) for the exception a call of the service raised
ExceptionMessage(service) ==
    CASE service = "gmail" -> "gmail error"
      [] service = "calendar" -> "calendar error"
      [] service = "drive" -> "drive error"

\* the record of a command whose exception was swallowed
ExecutionRecord_Swallowed(h, service, intent, handled) ==
    CommandResult(h, service, intent, handled.result, TRUE, NoError)

\* result, success and error_msg after the try block of process_command, as
\* the CommandResult that add_command stores
ExecutionRecord(h, service, intent, handled) ==
    CommandResult(h, service, intent,
                  IF handled.raised THEN PyNone ELSE handled.result,
                  ~handled.raised,
                  IF handled.raised THEN ExceptionMessage(service) ELSE NoError)

\* process_command on a single-shot command whose intent was parsed: the
\* dispatch to the handler and the record in the session
ProcessSingleShot(service, intent, parameters, confirm, outcome) ==
    /\ pc = "idle"
    /\ Len(history) < MaxHistory
    /\ Len(calls) < MaxCalls
    /\ LET h == Dispatch(service, intent, parameters, dry_run, auto_confirm, confirm, outcome)
           c == ExecutionRecord(history, service, intent, h)
       IN  /\ calls' = calls \o h.calls
           /\ IF h.record
              THEN /\ undo_stack' = Record(undo_stack,
                                           UndoAction("send_email", recorded + 1, "none"))
                   /\ recorded' = recorded + 1
                   /\ streak' = streak + 1
              ELSE UNCHANGED <<undo_stack, recorded, streak>>
           /\ history' = Append(history, c)
           /\ references' = UpdateReferences(references, c)
           /\ ret' = [op |-> "process_command", intent |-> intent, val |-> h.report]
    /\ entry_len' = Len(history)
    /\ UNCHANGED <<dry_run, popped, auto_confirm, workflowVars>>

Init ==
    /\ history = <<>>
    /\ references = EmptyReferences
    /\ ret = [op |-> "init"]
    /\ dry_run \in BOOLEAN
    /\ undo_stack = <<>>
    /\ recorded = 0
    /\ streak = 0
    /\ popped = 0
    /\ auto_confirm \in BOOLEAN
    /\ calls = <<>>
    /\ pc = "idle"
    /\ steps = <<>>
    /\ step_i = 0
    /\ completed_steps = <<>>
    /\ failed_steps = <<>>
    /\ results = <<>>
    /\ attempted = <<>>
    /\ entry_len = 0

Next ==
    \/ \E c \in SingleShots, confirm \in BOOLEAN, outcome \in AllOutcomes :
           ProcessSingleShot(c[1], c[2], c[3], confirm, outcome)
    \/ \E enabled \in BOOLEAN : SetDryRun(enabled)
    \/ \E confirm \in BOOLEAN : UndoLastAction(confirm)
    \/ ClearHistory

Spec == Init /\ [][Next]_vars

\* process_command alone, in either dry-run mode: the commands of one
\* session without undo requests and without clear_history
NextDispatch ==
    \/ \E c \in SingleShots, confirm \in BOOLEAN, outcome \in AllOutcomes :
           ProcessSingleShot(c[1], c[2], c[3], confirm, outcome)
    \/ \E enabled \in BOOLEAN : SetDryRun(enabled)

SpecDispatch == Init /\ [][NextDispatch]_vars

(***************************************************************************)
(* LLMClient.parse_intent and IntentParser.  A confidence is a number of   *)
(* hundredths (70 is 0.7).  A reply of the language model is empty, text   *)
(* that is not JSON, a JSON object, or an exception raised by the call.    *)
(***************************************************************************)
\* max_retries: int = 2
max_retries == 2

\* threshold: float = 0.7
default_threshold == 70

\* the JSON object of a reply: fields are the keys it holds
JsonData(fields, intent, parameters, confidence) ==
    [fields |-> fields, intent |-> intent, parameters |-> parameters,
     confidence |-> confidence]

NoData == JsonData({}, "", {}, 0)

EmptyReply == [kind |-> "empty", data |-> NoData]
TextReply == [kind |-> "text", data |-> NoData]
RaisedReply == [kind |-> "raise", data |-> NoData]
JsonReply(data) == [kind |-> "json", data |-> data]

\* Intent: intent and confidence are required, 0.0 <= confidence <= 1.0
SchemaValid(data) ==
    /\ "intent" \in data.fields
    /\ "confidence" \in data.fields
    /\ data.confidence >= 0
    /\ data.confidence <= 100

\* response_model.model_validate(data); parameters defaults to {}
ModelValidate(data) ==
    [intent |-> data.intent,
     parameters |-> IF "parameters" \in data.fields THEN data.parameters ELSE {},
     confidence |-> data.confidence]

\* an attempt of parse_intent that ends in continue or in a caught
\* JSONDecodeError or ValidationError: the loop goes on
Retried(reply) ==
    \/ reply.kind = "empty"
    \/ reply.kind = "text"
    \/ reply.kind = "json" /\ ~SchemaValid(reply.data)

\* parse_intent accepting whatever JSON object the model returns
ParseIntent_NoValidation(replies, retries) ==
    LET ends == {k \in 1..(retries + 1) : replies[k].kind \in {"json", "raise"}}
        last == CHOOSE k \in ends : \A j \in ends : k <= j
    IN  IF ends = {}
        THEN [result |-> <<>>, calls |-> retries + 1]
        ELSE IF replies[last].kind = "raise"
        THEN [result |-> <<>>, calls |-> last]
        ELSE [result |-> <<ModelValidate(replies[last].data)>>, calls |-> last]

\* LLMClient.parse_intent: replies[k] is what the k-th call of the model
\* yields; the result is <<>> for None and calls counts the calls made
ParseIntent(replies, retries) ==
    LET ends == {k \in 1..(retries + 1) : ~Retried(replies[k])}
        last == CHOOSE k \in ends : \A j \in ends : k <= j
    IN  IF ends = {}
        THEN [result |-> <<>>, calls |-> retries + 1]
        ELSE IF replies[last].kind = "raise"
        THEN [result |-> <<>>, calls |-> last]
        ELSE [result |-> <<ModelValidate(replies[last].data)>>, calls |-> last]

\* str.lower() on a word of a command
LowerWord(word) ==
    CASE word = "Schedule" -> "schedule"
      [] word = "PDF" -> "pdf"
      [] word = "Sam" -> "sam"
      [] word = "Share" -> "share"
      [] word = "Try" -> "try"
      [] OTHER -> word

\* user_message.lower()
LowerText(text) == [k \in 1..Len(text) |-> LowerWord(text[k])]

calendar_keywords ==
    {<<"meeting">>, <<"event">>, <<"schedule">>, <<"calendar">>, <<"appointment">>,
     <<"remind">>, <<"tomorrow">>, <<"next", "week">>, <<"today", "at">>}

drive_keywords ==
    {<<"file">>, <<"folder">>, <<"document">>, <<"drive">>, <<"upload">>,
     <<"download">>, <<"share">>, <<"pdf">>, <<"doc">>, <<"spreadsheet">>}

\* parse_gmail_command / parse_calendar_command / parse_drive_command: one
\* parse_intent call with the system prompt of the service
ParseServiceCommand(prompt, replies) ==
    LET parsed == ParseIntent(replies, max_retries)
    IN  [intent |-> parsed.result, prompts |-> <<prompt>>, llm_calls |-> parsed.calls]

\* parse_command asking for the drive keywords first
ParseCommand_DriveFirst(text, replies) ==
    LET message_lower == LowerText(text)
    IN  IF ContainsAny(message_lower, drive_keywords)
        THEN [service |-> "drive"] @@ ParseServiceCommand("DRIVE_SYSTEM_PROMPT", replies)
        ELSE IF ContainsAny(message_lower, calendar_keywords)
        THEN [service |-> "calendar"]
                 @@ ParseServiceCommand("CALENDAR_SYSTEM_PROMPT", replies)
        ELSE [service |-> "gmail"] @@ ParseServiceCommand("GMAIL_SYSTEM_PROMPT", replies)

\* IntentParser.parse_command: the pair (intent, service), with the prompts
\* of the service parsers it invoked and the calls of the model they made
ParseCommand(text, replies) ==
    LET message_lower == LowerText(text)
    IN  IF ContainsAny(message_lower, calendar_keywords)
        THEN [service |-> "calendar"]
                 @@ ParseServiceCommand("CALENDAR_SYSTEM_PROMPT", replies)
        ELSE IF ContainsAny(message_lower, drive_keywords)
        THEN [service |-> "drive"] @@ ParseServiceCommand("DRIVE_SYSTEM_PROMPT", replies)
        ELSE [service |-> "gmail"] @@ ParseServiceCommand("GMAIL_SYSTEM_PROMPT", replies)

\* is_confident comparing strictly
IsConfident_Strict(intent, threshold) == intent.confidence > threshold

\* IntentParser.is_confident
IsConfident(intent, threshold) == intent.confidence >= threshold

\* the commands handed to parse_command: a keyword that shows only after
\* lower(), keywords of two services, a two-word keyword, half of one,
\* and a command without any keyword
ParserTexts ==
    {<<"Schedule", "a", "call">>, <<"share", "the", "meeting", "notes">>,
     <<"upload", "the", "PDF">>, <<"what", "is", "due", "next", "week">>,
     <<"any", "news", "today">>, <<"write", "to", "Sam">>}

\* the JSON objects the model answers with: a valid one of low confidence
\* and two schema violations
JsonObjects ==
    {JsonData({"intent", "parameters", "confidence"}, "send_email",
              {"to", "subject", "body"}, 50),
     JsonData({"intent", "parameters", "confidence"}, "send_email",
              {"to", "subject", "body"}, 120),
     JsonData({"parameters", "confidence"}, "", {"query"}, 90)}

Replies == {EmptyReply, TextReply, RaisedReply} \cup {JsonReply(d) : d \in JsonObjects}

\* what the model yields on each of the max_retries + 1 calls
ReplySequences == [1..(max_retries + 1) -> Replies]

\* the confidences and thresholds is_confident is asked about
Confidences == {0, 50, 69, 70, 71, 100}

Thresholds == {0, 50, 70, 100}

\* a call of IntentParser.parse_command
CallParseCommand(text, replies) ==
    /\ ret' = [op |-> "parse_command", text |-> text, replies |-> replies,
               val |-> ParseCommand(text, replies)]
    /\ UNCHANGED nonRetVars

\* a call of IntentParser.is_confident; args holds the threshold when the
\* caller passes one
CallIsConfident(intent, args) ==
    /\ ret' = [op |-> "is_confident", intent |-> intent, args |-> args,
               val |-> IsConfident(intent, IF Len(args) > 0 THEN args[1]
                                           ELSE default_threshold)]
    /\ UNCHANGED nonRetVars

NextParser ==
    \/ \E text \in ParserTexts, replies \in ReplySequences :
           CallParseCommand(text, replies)
    \/ \E c \in Confidences, args \in {<<>>} \cup {<<t>> : t \in Thresholds} :
           CallIsConfident(ModelValidate(JsonData({"intent", "confidence"},
                                                  "list_events", {}, c)), args)

\* IntentParser() next to a fresh session
InitParser == InitSession

SpecParser == InitParser /\ [][NextParser]_vars

(***************************************************************************)
(* ContextInferenceEngine.infer_parameters.  parameters.copy() is a        *)
(* shallow copy: the copy and the caller's dict hold the same value        *)
(* objects until a key of the copy is assigned anew.  An inference state   *)
(* holds the copy (params), the caller's dict (caller), the keys whose     *)
(* value object is still shared, the session references, the attendees     *)
(* _infer_attendees extracted and whether an exception left the call.      *)
(***************************************************************************)
PyInt(n) == [kind |-> "int", items |-> <<n>>, id |-> ""]
PyTrue == [kind |-> "bool", items |-> <<>>, id |-> "True"]

\* a string of space separated tokens, as the query of a mail search is
PyText(tokens) == [kind |-> "str", items |-> tokens, id |-> ""]

\* a token of a query; days is the number in newer_than:<days>d
Token(flag, days) == [flag |-> flag, days |-> days]

\* bool(v) for the values of a parameters dict
IsTrue(v) ==
    CASE v.kind = "none" -> FALSE
      [] v.kind = "list" -> Len(v.items) > 0
      [] v.kind = "str" -> v.id # "" \/ Len(v.items) > 0
      [] v.kind = "int" -> v.items[1] # 0
      [] OTHER -> TRUE

\* what the calendar holds: the event e1 has three attendees, one of them
\* without an email; the other entities have no 'attendees' key
HasAttendeesKey(event) == event.kind = "dict" /\ event.id = "e1"

AttendeesOf(event) ==
    <<[email |-> "ann@corp.org"], [name |-> "bo"], [email |-> "cy@corp.org"]>>

\* event.get('summary')
SummaryOf(event) == PyStr("summary")

InferenceState(params, caller, shared, refs) ==
    [params |-> params, caller |-> caller, shared |-> shared, refs |-> refs,
     attendees |-> <<>>, raised |-> FALSE]

\* params[key] = value: the key of the copy is bound to a new object
Assign(st, key, value) ==
    [st EXCEPT !.params = SetParam(@, key, value), !.shared = @ \ {key}]

\* params[key].extend(more): the list object itself grows, in every dict
\* that holds it
ExtendInPlace(st, key, more) ==
    LET grown == PyList(st.params[key].items \o more)
    IN  [st EXCEPT !.params = SetParam(@, key, grown),
                   !.caller = IF key \in st.shared THEN SetParam(@, key, grown) ELSE @]

\* the lookup of the next meeting without try / except: the exception of
\* list_events leaves the call
InferNextMeeting_NoTry(command, st, lookup) ==
    IF ContainsAny(command, {<<"next", "meeting">>, <<"upcoming", "meeting">>})
    THEN IF lookup = "raise"
         THEN [st EXCEPT !.raised = TRUE]
         ELSE IF lookup = "ok"
         THEN LET next_event == PyDict("e1")
                  found == [st EXCEPT !.refs = [@ EXCEPT !["next_meeting"] =
                                                              ValRef(next_event)]]
              IN  Assign(Assign(Assign(found, "inferred_event", next_event),
                                "event_id", PyStr(next_event.id)),
                         "summary", SummaryOf(next_event))
         ELSE st
    ELSE st

\* the first branch of _infer_meeting_params with its try / except; lookup
\* is the outcome of calendar_service.list_events
InferNextMeeting(command, st, lookup) ==
    IF ContainsAny(command, {<<"next", "meeting">>, <<"upcoming", "meeting">>})
           /\ lookup = "ok"
    THEN LET next_event == PyDict("e1")
             found == [st EXCEPT !.refs = [@ EXCEPT !["next_meeting"] = ValRef(next_event)]]
         IN  Assign(Assign(Assign(found, "inferred_event", next_event),
                           "event_id", PyStr(next_event.id)),
                    "summary", SummaryOf(next_event))
    ELSE st

\* the days window of _infer_meeting_params
InferDays(command, st) ==
    IF Contains(command, <<"today">>) /\ Contains(command, <<"meeting">>)
    THEN Assign(st, "days", PyInt(1))
    ELSE IF Contains(command, <<"this", "week">>)
    THEN Assign(st, "days", PyInt(7))
    ELSE IF Contains(command, <<"next", "week">>)
    THEN Assign(st, "days", PyInt(14))
    ELSE st

\* ContextInferenceEngine._infer_meeting_params
InferMeetingParameters(command, st, lookup) ==
    InferDays(command, InferNextMeeting(command, st, lookup))

\* the sender of "last email from <sender>": the word after the first "from"
HasSender(command) ==
    \E k \in 1..(Len(command) - 1) : command[k] = "from"

\* the first branch of _infer_email_params with its try / except; lookup is
\* the outcome of gmail_service.search_emails
InferLastEmail(command, st, lookup) ==
    IF Contains(command, <<"last", "email">>) /\ HasSender(command) /\ lookup = "ok"
    THEN LET last_email == PyDict("e2")
         IN  Assign(Assign(st, "inferred_email", last_email),
                    "email_id", PyStr(last_email.id))
    ELSE st

\* the query replaced by the token
AddToken_Replace(st, token) == Assign(st, "query", PyText(<<token>>))

\* if 'query' in params and params['query']: params['query'] += " " + token
\* else: params['query'] = token
AddToken(st, token) ==
    IF HasParam(st.params, "query") /\ IsTrue(st.params["query"])
    THEN Assign(st, "query", PyText(Append(st.params["query"].items, token)))
    ELSE Assign(st, "query", PyText(<<token>>))

\* int(word) for the numbers the commands hold
NumberOf(word) ==
    CASE word = "2" -> 2
      [] word = "3" -> 3

IsNumber(word) == word \in {"2", "3"}

\* re.search(r'last\s+(\d+)\s+<unit>s?', command): the numbers of the
\* matches from left to right; Python takes the first
UnitMatches(command, unit) ==
    LET at == {k \in 1..(Len(command) - 2) :
                   /\ command[k] = "last"
                   /\ IsNumber(command[k + 1])
                   /\ command[k + 2] \in unit}
        first == CHOOSE k \in at : \A j \in at : k <= j
    IN  IF at = {} THEN <<>> ELSE <<NumberOf(command[first + 1])>>

AddTokenIf(condition, st, token) == IF condition THEN AddToken(st, token) ELSE st

\* the filter tokens of _infer_email_params, in the order of the code
InferFilterTokens(command, st) ==
    LET days_match == UnitMatches(command, {"day", "days"})
        weeks_match == UnitMatches(command, {"week", "weeks"})
        months_match == UnitMatches(command, {"month", "months"})
        unread == AddTokenIf(Contains(command, <<"unread">>), st, Token("is:unread", 0))
        important == AddTokenIf(Contains(command, <<"important">>)
                                    \/ Contains(command, <<"priority">>),
                                unread, Token("is:important", 0))
        days == IF Len(days_match) > 0
                THEN AddToken(important, Token("newer_than", days_match[1]))
                ELSE important
        weeks == IF Len(weeks_match) > 0
                 THEN AddToken(days, Token("newer_than", weeks_match[1] * 7))
                 ELSE days
        months == IF Len(months_match) > 0
                  THEN AddToken(weeks, Token("newer_than", months_match[1] * 30))
                  ELSE weeks
        last_week == AddTokenIf(Contains(command, <<"last", "week">>) /\ Len(weeks_match) = 0,
                                months, Token("newer_than", 7))
    IN  AddTokenIf(Contains(command, <<"last", "month">>) /\ Len(months_match) = 0,
                   last_week, Token("newer_than", 30))

\* ContextInferenceEngine._infer_email_params
InferEmailParameters(command, st, lookup) ==
    InferFilterTokens(command, InferLastEmail(command, st, lookup))

\* references.get('next_meeting') or references.get('last_event')
MeetingInMind(refs) ==
    IF Truthy(RefGet(refs, "next_meeting")) THEN RefGet(refs, "next_meeting")
    ELSE RefGet(refs, "last_event")

\* the emails of the attendees of the events of a result list
RECURSIVE ResultAttendees(_)
ResultAttendees(items) ==
    IF Len(items) = 0 THEN <<>>
    ELSE (IF HasAttendeesKey(PyDict(Head(items)))
          THEN AttendeeEmails(AttendeesOf(PyDict(Head(items))))
          ELSE <<>>) \o ResultAttendees(Tail(items))

\* the attendees _infer_attendees extracts
ExtractAttendees(command, h, refs) ==
    LET last_event == MeetingInMind(refs)
        last_cmd == GetLastCommand(h)
    IN  IF ContainsAny(command, {<<"meeting", "attendees">>, <<"event", "attendees">>})
        THEN IF Truthy(last_event) /\ HasAttendeesKey(last_event)
             THEN AttendeeEmails(AttendeesOf(last_event))
             ELSE <<>>
        ELSE IF ContainsAny(command, {<<"the", "attendees">>, <<"all", "attendees">>})
        THEN IF Len(last_cmd) > 0 /\ last_cmd[1].service = "calendar"
                    /\ Truthy(last_cmd[1].result) /\ IsList(last_cmd[1].result)
             THEN ResultAttendees(last_cmd[1].result.items)
             ELSE <<>>
        ELSE <<>>

\* ContextInferenceEngine._infer_attendees
InferAttendees(command, st, h) ==
    LET attendees == ExtractAttendees(command, h, st.refs)
        marked(s) == [Assign(s, "inferred_attendees", PyTrue)
                          EXCEPT !.attendees = attendees]
    IN  IF Len(attendees) = 0
        THEN st
        ELSE IF ~HasParam(st.params, "to") \/ ~IsTrue(st.params["to"])
        THEN marked(Assign(st, "to", PyList(attendees)))
        ELSE IF IsList(st.params["to"])
        THEN marked(ExtendInPlace(st, "to", attendees))
        ELSE marked(Assign(st, "to", PyList(<<st.params["to"].id>> \o attendees)))

\* the pronoun test reduced to the word "it"
ResolveIt_OnlyIt(command, intent, st) ==
    LET target ==
            CASE intent \in {"share_file", "download_file", "delete_file"} ->
                     <<"last_file", "file_id", "inferred_file">>
              [] intent \in {"read_email", "delete_email"} ->
                     <<"last_email", "email_id", "inferred_email">>
              [] intent \in {"update_event", "delete_event"} ->
                     <<"last_event", "event_id", "inferred_event">>
              [] OTHER -> <<>>
    IN  IF Contains(command, <<"it">>) /\ Len(target) > 0
               /\ Truthy(RefGet(st.refs, target[1]))
        THEN Assign(Assign(st, target[2], PyStr(RefGet(st.refs, target[1]).id)),
                    target[3], RefGet(st.refs, target[1]))
        ELSE st

\* the it / that / this part of _resolve_pronouns
ResolveIt(command, intent, st) ==
    LET target ==
            CASE intent \in {"share_file", "download_file", "delete_file"} ->
                     <<"last_file", "file_id", "inferred_file">>
              [] intent \in {"read_email", "delete_email"} ->
                     <<"last_email", "email_id", "inferred_email">>
              [] intent \in {"update_event", "delete_event"} ->
                     <<"last_event", "event_id", "inferred_event">>
              [] OTHER -> <<>>
    IN  IF ContainsAny(command, {<<"it">>, <<"that">>, <<"this">>}) /\ Len(target) > 0
               /\ Truthy(RefGet(st.refs, target[1]))
        THEN Assign(Assign(st, target[2], PyStr(RefGet(st.refs, target[1]).id)),
                    target[3], RefGet(st.refs, target[1]))
        ELSE st

\* the them part of _resolve_pronouns
ResolveThem(command, intent, st) ==
    LET last_event == MeetingInMind(st.refs)
        attendees == IF Truthy(last_event) /\ HasAttendeesKey(last_event)
                     THEN AttendeeEmails(AttendeesOf(last_event))
                     ELSE <<>>
    IN  IF Contains(command, <<"them">>) /\ Len(attendees) > 0
        THEN CASE intent = "send_email" -> Assign(st, "to", PyList(attendees))
               [] intent = "share_file" ->
                      Assign(Assign(st, "emails", PyList(attendees)), "email",
                             IF Len(attendees) = 1 THEN PyStr(attendees[1])
                             ELSE PyList(attendees))
               [] OTHER -> st
        ELSE st

\* ContextInferenceEngine._resolve_pronouns
ResolvePronouns(command, intent, st) ==
    ResolveThem(command, intent, ResolveIt(command, intent, st))

\* whether infer_parameters asks a service, and so has a lookup outcome
NeedsLookup(command, intent) ==
    \/ /\ intent \in {"search_event", "update_event", "delete_event", "list_events"}
       /\ ContainsAny(LowerText(command), {<<"next", "meeting">>, <<"upcoming", "meeting">>})
    \/ /\ intent \in {"send_email", "read_email", "delete_email", "search_email"}
       /\ Contains(LowerText(command), <<"last", "email">>)
       /\ HasSender(LowerText(command))

\* ContextInferenceEngine.infer_parameters
InferParameters(h, refs, command, intent, parameters, lookup) ==
    LET command_lower == LowerText(command)
        start == InferenceState(parameters, parameters, DOMAIN parameters, refs)
        meeting == IF intent \in {"search_event", "update_event", "delete_event",
                                  "list_events"}
                   THEN InferMeetingParameters(command_lower, start, lookup)
                   ELSE start
        email == IF intent \in {"send_email", "read_email", "delete_email", "search_email"}
                 THEN InferEmailParameters(command_lower, meeting, lookup)
                 ELSE meeting
        attendees == IF intent = "send_email" /\ Contains(command_lower, <<"attendees">>)
                     THEN InferAttendees(command_lower, email, h)
                     ELSE email
    IN  ResolvePronouns(command_lower, intent, attendees)

\* the sessions infer_parameters is called in: a fresh one, and those left
\* by a listing of events, a search of emails and a search of files
SessionAfter(session, service, intent, result) ==
    LET c == CommandResult(session.history, service, intent, result, TRUE, NoError)
    IN  [history |-> Append(session.history, c),
         references |-> UpdateReferences(session.references, c)]

EmptySession == [history |-> <<>>, references |-> EmptyReferences]

InferenceSessions ==
    {EmptySession,
     SessionAfter(EmptySession, "calendar", "list_events", PyList(<<"e1">>)),
     SessionAfter(EmptySession, "calendar", "list_events", PyList(<<"e2", "e1">>)),
     SessionAfter(EmptySession, "gmail", "search_email", PyList(<<"e2", "e1">>)),
     SessionAfter(SessionAfter(EmptySession, "calendar", "list_events", PyList(<<"e1">>)),
                  "drive", "search_file", PyList(<<"e2">>))}

\* the commands whose parameters are inferred
InferenceCommands ==
    {<<"email", "the", "meeting", "attendees">>,
     <<"send", "email", "to", "the", "attendees">>,
     <<"email", "the", "meeting", "attendees", "and", "thank", "them">>,
     <<"show", "unread", "important", "emails">>,
     <<"unread", "emails", "of", "the", "last", "2", "weeks">>,
     <<"priority", "mail", "of", "the", "last", "3", "days">>,
     <<"mail", "from", "last", "month">>,
     <<"the", "last", "email", "from", "bob", "if", "unread">>,
     <<"my", "next", "meeting", "this", "week">>,
     <<"share", "it", "with", "them">>,
     <<"Share", "it", "with", "x@y.com">>}

InferenceIntents == {"send_email", "search_email", "read_email", "list_events",
                     "share_file", "delete_event"}

\* the parameters the language model extracted: none, recipients as a list,
\* as a single address or as an empty list, a query, an empty query
InferenceParameters ==
    {<<>>, [to |-> PyList(<<"boss@corp.org">>)], [to |-> PyStr("boss@corp.org")],
     [to |-> PyList(<<>>)], [query |-> PyText(<<Token("from:boss", 0)>>)],
     [query |-> PyStr("")]}

\* a call of ContextInferenceEngine.infer_parameters; caller is the dict the
\* caller passed, as it is after the call
CallInferParameters(command, intent, parameters, lookup) ==
    \E out \in {InferParameters(history, references, command, intent, parameters,
                                 lookup)} :
        /\ references' = out.refs
        /\ ret' = [op |-> "infer_parameters", command |-> command, intent |-> intent,
                   parameters |-> parameters, lookup |-> lookup, val |-> out.params,
                   caller |-> out.caller, attendees |-> out.attendees,
                   raised |-> out.raised]
        /\ UNCHANGED <<history, nonSessionVars>>

\* ContextInferenceEngine(session, services) next to a session in use
InitInference ==
    /\ \E session \in InferenceSessions :
           /\ history = session.history
           /\ references = session.references
    /\ ret = [op |-> "init"]
    /\ dry_run = FALSE
    /\ undo_stack = <<>>
    /\ recorded = 0
    /\ streak = 0
    /\ popped = 0
    /\ auto_confirm = FALSE
    /\ calls = <<>>
    /\ pc = "idle"
    /\ steps = <<>>
    /\ step_i = 0
    /\ completed_steps = <<>>
    /\ failed_steps = <<>>
    /\ results = <<>>
    /\ attempted = <<>>
    /\ entry_len = 0

NextInference ==
    \E command \in InferenceCommands, intent \in InferenceIntents,
       parameters \in InferenceParameters :
        \E lookup \in (IF NeedsLookup(command, intent) THEN AllOutcomes ELSE {"ok"}) :
            CallInferParameters(command, intent, parameters, lookup)

SpecInference == InitInference /\ [][NextInference]_vars

(***************************************************************************)
(* Orchestrator.process_command from the command text on: smart queries,   *)
(* multi-service detection, intent parsing and the single-shot dispatch.   *)
(***************************************************************************)
\* LLMClient.parse_intent returned None
NoIntent == [kind |-> "none", multi_service |-> FALSE, operations |-> <<>>]

MultiServiceIntent(multi_service, operations) ==
    [kind |-> "intent", multi_service |-> multi_service, operations |-> operations]

\* WorkflowEngine.detect_multi_service; llm is what parse_intent returned
DetectMultiService(llm) ==
    IF llm.kind # "none" /\ llm.multi_service THEN llm ELSE NoIntent

\* Orchestrator._handle_smart_queries: whether the command was handled
\* (the return value) and whether a CommandResult was stored; outcome is
\* that of the lookup: "ok" (something found), "fail" (nothing found), "raise"
HandleSmartQueries(text, outcome) ==
    IF ContainsAny(text, {<<"next", "meeting">>, <<"upcoming", "meeting">>,
                          <<"next", "event">>})
    THEN CASE outcome = "ok" -> [handled |-> TRUE, record |-> TRUE]
           [] outcome = "fail" -> [handled |-> TRUE, record |-> FALSE]
           [] OTHER -> [handled |-> FALSE, record |-> FALSE]
    ELSE IF ContainsAny(text, {<<"unread", "emails">>, <<"unread", "messages">>,
                               <<"any", "unread">>})
    THEN IF outcome = "raise"
         THEN [handled |-> FALSE, record |-> FALSE]
         ELSE [handled |-> TRUE, record |-> FALSE]
    ELSE [handled |-> FALSE, record |-> FALSE]

\* the commands typed at the prompt
CommandTexts == {<<"when", "is", "my", "next", "meeting">>,
                 <<"any", "unread", "emails">>,
                 <<"share", "the", "file", "with", "sam">>}

\* a reply that holds a send_email intent with the parameters that are set
Understood(parameters, confidence) ==
    JsonReply(JsonData({"intent", "parameters", "confidence"}, "send_email",
                       parameters, confidence))

\* what the language model yields for the service prompt, call by call: an
\* intent at once, one after a retry, one of low confidence, and sequences
\* on which every attempt fails
CommandReplies ==
    {<<Understood({"to", "subject", "body"}, 90), EmptyReply, EmptyReply>>,
     <<EmptyReply, Understood({"subject", "body"}, 70), EmptyReply>>,
     <<Understood({"to", "subject", "body"}, 50), EmptyReply, EmptyReply>>,
     <<Understood({"subject", "body"}, 50), EmptyReply, EmptyReply>>,
     <<EmptyReply, TextReply, Understood({"to", "subject", "body"}, 120)>>,
     <<TextReply, RaisedReply, RaisedReply>>}

\* what the language model makes of the command as a multi-service request
LlmResults ==
    {NoIntent,
     MultiServiceIntent(FALSE,
         <<[service |-> "drive", intent |-> "search_file",
            parameters |-> [query |-> Given], depends_on |-> NoDep]>>),
     MultiServiceIntent(TRUE, <<>>),
     MultiServiceIntent(TRUE,
         <<[service |-> "drive", intent |-> "search_file",
            parameters |-> [query |-> Given], depends_on |-> NoDep],
           [service |-> "gmail", intent |-> "send_email",
            parameters |-> [subject |-> Given, body |-> Given], depends_on |-> 0]>>),
     MultiServiceIntent(TRUE,
         <<[service |-> "gmail", intent |-> "send_email",
            parameters |-> [to |-> Given, subject |-> Given], depends_on |-> NoDep],
           [service |-> "calendar", intent |-> "create_event",
            parameters |-> [summary |-> Given, start_time |-> Given],
            depends_on |-> NoDep]>>)}

\* process_command returning without having executed anything
ReturnEarly(report) ==
    /\ entry_len' = Len(history)
    /\ ret' = [op |-> "process_command", intent |-> "", val |-> report]
    /\ UNCHANGED <<history, references, dry_run, undo_stack, recorded, streak, popped,
                   auto_confirm, calls, workflowVars>>

\* process_command on a command that _handle_smart_queries handled
SmartQuery(smart) ==
    /\ IF smart.record
       THEN /\ Len(history) < MaxHistory
            /\ LET event == PyDict("e1")
                   c == CommandResult(history, "calendar", "get_next_meeting",
                                      event, TRUE, NoError)
               IN  /\ history' = Append(history, c)
                   /\ references' =
                          UpdateReferences([references EXCEPT
                                               !["next_meeting"] = ValRef(event)], c)
       ELSE UNCHANGED <<history, references>>
    /\ entry_len' = Len(history)
    /\ ret' = [op |-> "smart_query", intent |-> "",
               val |-> IF smart.record THEN "found" ELSE "nothing"]
    /\ UNCHANGED <<dry_run, undo_stack, recorded, streak, popped, auto_confirm, calls,
                   workflowVars>>

\* process_command after parse_command returned (None, service)
NotUnderstood(parse) ==
    /\ entry_len' = Len(history)
    /\ ret' = [op |-> "process_command", intent |-> "", val |-> "not_understood",
               llm_calls |-> parse.llm_calls]
    /\ UNCHANGED <<history, references, dry_run, undo_stack, recorded, streak, popped,
                   auto_confirm, calls, workflowVars>>

\* parse_command(command) for each command and each way the language
\* model may answer the service prompt
CommandParses ==
    [text \in CommandTexts |->
        {[replies |-> replies, parse |-> ParseCommand(text, replies)] :
             replies \in CommandReplies}]

\* process_command from the return of parse_command on; proceed is the
\* answer to "Continue anyway?", confirm the answer to the handler's prompt
\* and outcome the outcome of the handler's service call
DispatchParsed(parse) ==
    IF Len(parse.intent) = 0
    THEN NotUnderstood(parse)
    ELSE IF ~IsConfident(parse.intent[1], default_threshold) /\ ~auto_confirm
    THEN \E proceed \in BOOLEAN :
             IF ~proceed
             THEN ReturnEarly("declined")
             ELSE \E confirm \in BOOLEAN, outcome \in AllOutcomes :
                      ProcessSingleShot(parse.service, parse.intent[1].intent,
                                        parse.intent[1].parameters, confirm, outcome)
    ELSE \E confirm \in BOOLEAN, outcome \in AllOutcomes :
             ProcessSingleShot(parse.service, parse.intent[1].intent,
                               parse.intent[1].parameters, confirm, outcome)

\* Orchestrator.process_command.  The inputs are drawn where the code asks
\* for them: query_outcome is the outcome of the lookup of a smart query
\* and llm what the language model returns for the multi-service prompt
ProcessCommand(text) ==
    /\ pc = "idle"
    /\ \E query_outcome \in AllOutcomes :
         LET smart == HandleSmartQueries(text, query_outcome)
         IN  IF smart.handled
             THEN SmartQuery(smart)
             ELSE \E llm \in LlmResults :
                      LET multi_intent == DetectMultiService(llm)
                      IN  IF multi_intent.kind # "none" /\ multi_intent.multi_service
                          THEN /\ Len(calls) < MaxCalls
                               /\ StartWorkflow(multi_intent.operations)
                          ELSE \E parsed \in CommandParses[text] :
                                   DispatchParsed(parsed.parse)

\* the prompt loop of main: _execute_workflow has returned, its steps and
\* its WorkflowContext are gone, the next command is read
ReturnToPrompt ==
    /\ pc = "done"
    /\ pc' = "idle"
    /\ steps' = <<>>
    /\ step_i' = 0
    /\ completed_steps' = <<>>
    /\ failed_steps' = <<>>
    /\ results' = <<>>
    /\ attempted' = <<>>
    /\ ret' = [op |-> "prompt"]
    /\ UNCHANGED <<history, references, dry_run, undo_stack, recorded, streak, popped,
                   auto_confirm, calls, entry_len>>

NextCommand ==
    \/ \E text \in CommandTexts : ProcessCommand(text)
    \/ \E outcome \in AllOutcomes, continue \in BOOLEAN : RunStep(outcome, continue)
    \/ FinishWorkflow
    \/ ReturnToPrompt

SpecCommand == Init /\ [][NextCommand]_vars

(***************************************************************************)
(* utils/resilience.py: RetryConfig.get_delay, is_retryable_error and the  *)
(* wrapper of retry_with_backoff.  Delays are in milliseconds and the      *)
(* value of random.random() in thousandths.                                *)
(***************************************************************************)
default_max_attempts == 3
default_base_delay == 1000
default_max_delay == 60000
default_exponential_base == 2

\* RetryConfig.__init__
RetryConfig(max_attempts, base_delay, max_delay, exponential_base, jitter) ==
    [max_attempts |-> max_attempts, base_delay |-> base_delay, max_delay |-> max_delay,
     exponential_base |-> exponential_base, jitter |-> jitter]

\* base ** n
RECURSIVE Power(_, _)
Power(base, n) == IF n = 0 THEN 1 ELSE base * Power(base, n - 1)

Min(a, b) == IF a <= b THEN a ELSE b

\* RetryConfig.get_delay; random is what random.random() returns
GetDelay(config, attempt, random) ==
    LET delay == Min(config.base_delay * Power(config.exponential_base, attempt),
                     config.max_delay)
    IN  IF config.jitter THEN (delay * (500 + random)) \div 1000 ELSE delay

\* what one invocation of the wrapped function does: it returns, or raises
\* an exception of a type, with the status of an HttpError and a message
Returned == [type |-> "return", status |-> 0, message |-> <<>>]
HttpError(status, message) == [type |-> "HttpError", status |-> status, message |-> message]
Raised(type, message) == [type |-> type, status |-> 0, message |-> message]

\* is_retryable_error
IsRetryableError(error) ==
    IF error.type = "HttpError" /\ error.status \in {500, 502, 503, 504} THEN TRUE
    ELSE IF error.type = "HttpError" /\ error.status = 429 THEN TRUE
    ELSE IF error.type = "HttpError" /\ 400 <= error.status /\ error.status < 500 THEN FALSE
    ELSE IF error.type \in {"ConnectionError", "TimeoutError"} THEN TRUE
    ELSE ContainsAny(LowerText(error.message),
                     {<<"timeout">>, <<"connection">>, <<"network">>, <<"unavailable">>,
                      <<"try", "again">>})

\* isinstance(e, retryable_exceptions)
IsInstance(error, types) == error.type \in types \/ "Exception" \in types

\* the wrapper going on after every exception of a retryable type
RetryWithBackoff_NoErrorTest(config, retryable_exceptions, outcomes) ==
    LET stops == {k \in 1..config.max_attempts :
                      \/ outcomes[k].type = "return"
                      \/ ~IsInstance(outcomes[k], retryable_exceptions)}
        first == CHOOSE k \in stops : \A j \in stops : k <= j
    IN  IF config.max_attempts <= 0
        THEN [invocations |-> 0, returned |-> FALSE, raised |-> <<"TypeError">>, slept |-> 0]
        ELSE IF stops = {}
        THEN [invocations |-> config.max_attempts, returned |-> FALSE,
              raised |-> <<outcomes[config.max_attempts]>>,
              slept |-> config.max_attempts - 1]
        ELSE IF outcomes[first].type = "return"
        THEN [invocations |-> first, returned |-> TRUE, raised |-> <<>>, slept |-> first - 1]
        ELSE [invocations |-> first, returned |-> FALSE, raised |-> <<outcomes[first]>>,
              slept |-> first - 1]

\* the wrapper retry_with_backoff puts around a function: outcomes[k] is
\* what the k-th invocation does.  The loop goes on (after a sleep) only
\* after an exception of a retryable type that is_retryable_error accepts
\* and that is not the one of the last attempt; with no attempt at all
\* "raise last_exception" raises None, a TypeError.
RetryWithBackoff(config, retryable_exceptions, outcomes) ==
    LET stops == {k \in 1..config.max_attempts :
                      \/ outcomes[k].type = "return"
                      \/ ~IsInstance(outcomes[k], retryable_exceptions)
                      \/ ~IsRetryableError(outcomes[k])}
        first == CHOOSE k \in stops : \A j \in stops : k <= j
    IN  IF config.max_attempts <= 0
        THEN [invocations |-> 0, returned |-> FALSE, raised |-> <<"TypeError">>, slept |-> 0]
        ELSE IF stops = {}
        THEN [invocations |-> config.max_attempts, returned |-> FALSE,
              raised |-> <<outcomes[config.max_attempts]>>,
              slept |-> config.max_attempts - 1]
        ELSE IF outcomes[first].type = "return"
        THEN [invocations |-> first, returned |-> TRUE, raised |-> <<>>, slept |-> first - 1]
        ELSE [invocations |-> first, returned |-> FALSE, raised |-> <<outcomes[first]>>,
              slept |-> first - 1]

\* what an invocation of the wrapped function can do
FunctionOutcomes ==
    {Returned,
     HttpError(500, <<"server", "error">>),
     HttpError(404, <<"not", "found">>),
     HttpError(429, <<"rate", "limit">>),
     HttpError(501, <<"not", "implemented">>),
     HttpError(505, <<"Try", "again">>),
     Raised("ConnectionError", <<"reset">>),
     Raised("ValueError", <<"bad", "value">>)}

\* the exception types given to retry_with_backoff: the default and a wider one
RetryableTypes == {{"HttpError"}, {"HttpError", "ConnectionError"}}

\* the configurations: the default, that of a short cap, and one without jitter
RetryConfigs ==
    {RetryConfig(default_max_attempts, default_base_delay, default_max_delay,
                 default_exponential_base, TRUE),
     RetryConfig(default_max_attempts, default_base_delay, 10000,
                 default_exponential_base, TRUE),
     RetryConfig(2, default_base_delay, 10000, default_exponential_base, FALSE)}

Attempts == {0, 1, 2, 3, 10}
Randoms == {0, 250, 500, 750, 999}

\* a call of a function wrapped by retry_with_backoff
CallWrapped(max_attempts, retryable_exceptions, outcomes) ==
    /\ ret' = [op |-> "retry_with_backoff", max_attempts |-> max_attempts,
               retryable_exceptions |-> retryable_exceptions, outcomes |-> outcomes,
               val |-> RetryWithBackoff(RetryConfig(max_attempts, default_base_delay,
                                                    default_max_delay,
                                                    default_exponential_base, TRUE),
                                        retryable_exceptions, outcomes)]
    /\ UNCHANGED nonRetVars

\* a call of RetryConfig.get_delay
CallGetDelay(config, attempt, random) ==
    /\ ret' = [op |-> "get_delay", config |-> config, attempt |-> attempt,
               val |-> GetDelay(config, attempt, random)]
    /\ UNCHANGED nonRetVars

NextRetry ==
    \/ \E max_attempts \in 0..default_max_attempts, types \in RetryableTypes :
           \E outcomes \in [1..max_attempts -> FunctionOutcomes] :
               CallWrapped(max_attempts, types, outcomes)
    \/ \E config \in RetryConfigs, attempt \in Attempts, random \in Randoms :
           CallGetDelay(config, attempt, random)

SpecRetry == InitSession /\ [][NextRetry]_vars

(***************************************************************************)
(* Properties of the session memory                                        *)
(***************************************************************************)
LastRecord(h) == h[Len(h)]

\* the step is a call of add_command
IsAddCommand == ret'.op = "add_command" /\ Len(history') > 0

\* C7: after N >= 1 add_command calls with no clear_history in between,
\* references["last_command"] is the record created by the N-th call, and it
\* is the record get_last_command() returns.
C7_LastCommandIsNth ==
    Len(history) >= 1 =>
        /\ references["last_command"].tag = "cmd"
        /\ references["last_command"].cmd = GetLastCommand(history)
        /\ references["last_command"].cmd[1].timestamp = Len(history)
        /\ references["last_command"].cmd[1] = history[Len(history)]

C7_Witness ==
    /\ Len(history) = 2
    /\ history[1].service # history[2].service
    /\ history[1].success /\ ~history[2].success
    /\ references["last_command"] = CmdRef(history[2])

\* C8 as stated: an add_command call with success = false leaves
\* references["last_command"] and references["last_<service>_command"]
\* unchanged.
C8_FailedCommandKeepsReferences ==
    [][(IsAddCommand /\ ~LastRecord(history').success) =>
           /\ references'["last_command"] = references["last_command"]
           /\ references'[ServiceKey(LastRecord(history').service)] =
                  references[ServiceKey(LastRecord(history').service)]]_vars

\* the positions in h of the commands of one service
ServiceIndices(h, service) == {k \in 1..Len(h) : h[k].service = service}

MaxOf(S) == CHOOSE m \in S : \A k \in S : k <= m

\* C8 (amended): references["last_command"] is the most recent command and
\* references["last_<service>_command"] the most recent command of that
\* service, whether or not it succeeded: a failed add_command overwrites both.
C8_LastCommandsAnySuccess ==
    /\ Len(history) >= 1 => references["last_command"] = CmdRef(LastRecord(history))
    /\ \A service \in Services :
           IF ServiceIndices(history, service) = {}
           THEN references[ServiceKey(service)] = Absent
           ELSE references[ServiceKey(service)] =
                    CmdRef(history[MaxOf(ServiceIndices(history, service))])

C8_Witness ==
    /\ Len(history) = 2
    /\ history[1].success /\ ~history[2].success
    /\ history[1].service = "gmail" /\ history[2].service = "gmail"
    /\ references["last_gmail_command"] = CmdRef(history[2])
    /\ references["last_command"] = CmdRef(history[2])

\* the entity reference designated for a (service, intent) pair
DesignatedKey(service, intent) ==
    CASE service = "calendar" /\ intent \in {"list_events", "search_event"} -> "last_event"
      [] service = "gmail" /\ intent = "search_email" -> "last_email"
      [] service = "drive" /\ intent = "search_file" -> "last_file"
      [] OTHER -> "none"

EntityKeys == {"last_event", "last_email", "last_file"}

NonEmptyList(v) == IsList(v) /\ Len(v.items) > 0

\* C9 as stated: every add_command of a designated pair with a non-empty
\* sequence as result sets the pair's entity reference to the first element,
\* and no other pair changes last_event, last_email or last_file.
C9_DesignatedPairSetsEntity ==
    [][IsAddCommand =>
           LET c == LastRecord(history')
           IN  \A k \in EntityKeys :
                   IF k = DesignatedKey(c.service, c.intent) /\ NonEmptyList(c.result)
                   THEN references'[k] = ValRef(Elem(c.result, 1))
                   ELSE k # DesignatedKey(c.service, c.intent) =>
                            references'[k] = references[k]]_vars

\* C9 (amended): every add_command with success = true of a designated pair
\* with a non-empty sequence as result sets the pair's entity reference to
\* the first element; every other add_command leaves last_event, last_email
\* and last_file as they were.
C9_SuccessfulDesignatedPairSetsEntity ==
    [][IsAddCommand =>
           LET c == LastRecord(history')
           IN  \A k \in EntityKeys :
                   IF k = DesignatedKey(c.service, c.intent) /\ NonEmptyList(c.result)
                      /\ c.success
                   THEN references'[k] = ValRef(Elem(c.result, 1))
                   ELSE references'[k] = references[k]]_vars

C9_Witness ==
    /\ Len(history) = 2
    /\ history[1].service = "calendar" /\ history[1].intent = "search_event"
    /\ history[1].success /\ history[1].result = PyList(<<"e2", "e1">>)
    /\ history[2].service = "calendar" /\ history[2].intent = "list_events"
    /\ ~history[2].success /\ history[2].result = PyList(<<"e1">>)
    /\ references["last_event"] = ValRef(PyDict("e2"))

\* C10: add_command appends exactly one record at the end of history and
\* leaves the earlier records in place; apart from clear_history no
\* operation shortens, reorders or rewrites history.
C10_HistoryAppendOnly ==
    [][/\ ret'.op = "add_command" =>
              /\ Len(history') = Len(history) + 1
              /\ SubSeq(history', 1, Len(history)) = history
       /\ ret'.op \notin {"add_command", "clear_history"} => history' = history]_vars

C10_Witness ==
    /\ Len(history) = 2
    /\ history[1] # [history[2] EXCEPT !.timestamp = 1]
    /\ ret.op = "resolve_reference"
    /\ ret.val.kind # "none"

(***************************************************************************)
(* Properties of the undo stack                                            *)
(***************************************************************************)
\* C5: the undo stack never holds more than 10 entries, and after more than
\* 10 record_action calls with no pop or clear in between it holds exactly
\* the 10 most recently recorded actions, oldest first.
C5_UndoStackBounded ==
    /\ Len(undo_stack) <= max_undo_actions
    /\ streak > max_undo_actions =>
           /\ Len(undo_stack) = max_undo_actions
           /\ \A k \in 1..max_undo_actions :
                  undo_stack[k].resource_id = recorded - max_undo_actions + k

C5_Witness ==
    /\ streak = max_undo_actions + 2
    /\ Len(undo_stack) = max_undo_actions
    /\ undo_stack[1].resource_id = recorded - 9
    /\ undo_stack[max_undo_actions].resource_id = recorded

\* C6: when the top entry of the undo stack has no undo data,
\* undo_last_action reports a refusal, makes no service call and leaves the
\* undo stack unchanged.
C6_NonReversibleUndoRefused ==
    [][(/\ ret'.op = "undo_last_action"
        /\ Len(undo_stack) > 0
        /\ undo_stack[Len(undo_stack)].undo_data = "none") =>
           /\ ret'.val = "cannot_undo"
           /\ undo_stack' = undo_stack
           /\ calls' = calls]_vars

C6_Witness ==
    /\ ret = [op |-> "undo_last_action", val |-> "cannot_undo"]
    /\ Len(undo_stack) = 2
    /\ undo_stack[1].undo_data = "data"
    /\ undo_stack[2].undo_data = "none"

(***************************************************************************)
(* Properties of the workflow loop                                         *)
(***************************************************************************)
\* C1: every executed step with depends_on = k started after k was added to
\* completed_steps; no step with an unmet dependency is executed.
C1_DependencyBeforeExecution ==
    \A k \in 1..Len(attempted) :
        LET a == attempted[k]
            dep == steps[a.index + 1].depends_on
        IN  dep # NoDep => dep \in Range(a.completed)

C1_Witness ==
    /\ pc = "done"
    /\ Len(steps) = 2
    /\ steps[1].depends_on = 1
    /\ steps[2].depends_on = NoDep
    /\ Len(attempted) = 1
    /\ attempted[1].index = 1

\* the indices of the steps executed so far
AttemptedIndices == {attempted[k].index : k \in 1..Len(attempted)}

\* when the loop reached step i (0-based) its dependency was unset or
\* already completed
EligibleStep(i) ==
    LET dep == steps[i + 1].depends_on
    IN  dep = NoDep \/ (dep < i /\ dep \in Range(completed_steps))

\* the step that was just executed raised
StepRaised == ret.op = "execute_workflow" /\ ret.val \in {"failed", "aborted"}

\* C13 as stated: when the execution of a step raises, its index is added
\* to failed_steps and the run is not aborted: every step the loop has
\* passed whose dependency was unset or already completed was executed.
C13_FailedStepDoesNotAbort ==
    pc = "workflow" =>
        /\ StepRaised =>
               /\ Len(failed_steps) > 0
               /\ failed_steps[Len(failed_steps)] = attempted[Len(attempted)].index
        /\ \A i \in 0..(step_i - 1) : EligibleStep(i) => i \in AttemptedIndices

\* C13 (amended): when the execution of a step raises, its index is added to
\* failed_steps; the loop is left only when auto_confirm is off and the user
\* declines to continue, and otherwise every step the loop has passed whose
\* dependency was unset or already completed was executed.
C13_FailedStepAbortsOnlyOnDecline ==
    pc = "workflow" =>
        /\ StepRaised =>
               /\ Len(failed_steps) > 0
               /\ failed_steps[Len(failed_steps)] = attempted[Len(attempted)].index
               /\ failed_steps[Len(failed_steps)] \notin Range(completed_steps)
        /\ ret.val = "aborted" => ~auto_confirm /\ step_i = Len(steps)
        /\ ret.val # "aborted" =>
               \A i \in 0..(step_i - 1) : EligibleStep(i) <=> i \in AttemptedIndices

C13_Witness ==
    /\ pc = "workflow"
    /\ ~auto_confirm
    /\ Len(steps) = 2
    /\ step_i = 2
    /\ failed_steps = <<0>>
    /\ completed_steps = <<1>>
    /\ steps[2].depends_on = NoDep
    /\ AttemptedIndices = {0, 1}

(***************************************************************************)
(* Properties of the workflow engine                                       *)
(***************************************************************************)
\* C15: can_execute_step(step, completed_steps) is true iff step.depends_on
\* is unset or is an element of completed_steps; a step with depends_on = 0
\* is not executable with completed_steps = [] and is with [0].
C15_CanExecuteIffDependencyCompleted ==
    ret.op = "can_execute_step" =>
        /\ ret.val <=>
               \/ ret.step.depends_on = NoDep
               \/ \E k \in 1..Len(ret.completed_steps) :
                      ret.completed_steps[k] = ret.step.depends_on
        /\ (ret.step.depends_on = 0 /\ ret.completed_steps = <<>>) => ~ret.val
        /\ (ret.step.depends_on = 0 /\ ret.completed_steps = <<0>>) => ret.val

C15_Witness ==
    /\ ret.op = "can_execute_step"
    /\ ret.step.depends_on = 0
    /\ ret.completed_steps = <<0>>
    /\ ret.val

\* the call was inject_context on a step whose dependency has a result
InjectedFrom(kind) ==
    /\ ret.op = "inject_context"
    /\ ret.step.depends_on # NoDep
    /\ ret.step.depends_on \in DOMAIN ret.previous_results
    /\ ret.previous_results[ret.step.depends_on].kind = kind

\* C17: inject_context copies the id of the dependency's result into the
\* step's id parameter only when the step has none: an id or emails
\* parameter the step already has is never overwritten, and when depends_on
\* is unset or has no entry in previous_results the parameters are unchanged.
C17_InjectContextKeepsOwnParameters ==
    ret.op = "inject_context" =>
        LET before == ret.step.parameters
            after == ret.val.parameters
        IN  /\ ret.val = [ret.step EXCEPT !.parameters = after]
            /\ \A key \in {"id", "emails"} :
                   key \in DOMAIN before =>
                       key \in DOMAIN after /\ after[key] = before[key]
            /\ (~InjectedFrom("dict") /\ ~InjectedFrom("list")) => after = before
            /\ ("id" \in DOMAIN after /\ "id" \notin DOMAIN before) =>
                   /\ InjectedFrom("dict")
                   /\ after["id"] =
                          PyStr(ret.previous_results[ret.step.depends_on].id)
            /\ (/\ InjectedFrom("dict")
                /\ ret.previous_results[ret.step.depends_on].id # ""
                /\ "id" \notin DOMAIN before) => "id" \in DOMAIN after

C17_Witness ==
    /\ InjectedFrom("dict")
    /\ ret.previous_results[0].id = "e1"
    /\ "attendees" \in DOMAIN ret.previous_results[0]
    /\ ret.previous_results[0].attendees.kind = "list"
    /\ {"id", "emails"} \subseteq DOMAIN ret.step.parameters
    /\ ret.val.parameters["id"] = PyStr("own")
    /\ ret.val.parameters["emails"] = PyList(<<"own@example.com">>)

\* C18 as stated: whenever the result of the step's dependency is a
\* sequence, inject_context sets the step's items parameter to that
\* sequence, whatever the step's parameters were.
C18_SequenceBecomesItems ==
    InjectedFrom("list") =>
        /\ "items" \in DOMAIN ret.val.parameters
        /\ ret.val.parameters["items"] = ret.previous_results[ret.step.depends_on]

\* C18 (amended): whenever the result of the step's dependency is a
\* sequence and the step has no ids parameter, inject_context sets the
\* step's items parameter to that sequence, replacing an items parameter the
\* step had, and leaves the other parameters alone; a step that has an ids
\* parameter is left unchanged.
C18_SequenceBecomesItemsUnlessIds ==
    InjectedFrom("list") =>
        LET before == ret.step.parameters
            after == ret.val.parameters
        IN  IF "ids" \in DOMAIN before
            THEN ret.val = ret.step
            ELSE /\ DOMAIN after = DOMAIN before \cup {"items"}
                 /\ after["items"] = ret.previous_results[ret.step.depends_on]
                 /\ \A key \in DOMAIN before \ {"items"} : after[key] = before[key]

C18_Witness ==
    /\ InjectedFrom("list")
    /\ ret.previous_results[0] = PyList(<<"e1", "e2">>)
    /\ "ids" \notin DOMAIN ret.step.parameters
    /\ "items" \in DOMAIN ret.step.parameters
    /\ ret.step.parameters["items"] = PyList(<<"e2">>)
    /\ ret.val.parameters["items"] = PyList(<<"e1", "e2">>)

(***************************************************************************)
(* Properties of the safety policy                                         *)
(***************************************************************************)
\* the step made a mutating service call
MadeCall == Len(calls') > Len(calls)

\* C2: while dry-run mode is enabled no command results in a mutating
\* service call.
C2_DryRunMakesNoMutatingCall == [][dry_run => ~MadeCall]_vars

\* C3: an UndoAction is pushed only after gmail send_email has returned
\* successfully; when the call raises, the user declines, parameters are
\* missing or dry-run is enabled, _handle_send_email leaves the undo stack
\* unchanged.
C3_RecordOnlyAfterSuccess ==
    [][/\ undo_stack' # undo_stack =>
              /\ Len(calls') = Len(calls) + 1
              /\ calls'[Len(calls')] = ServiceCall("send_email", "ok")
              /\ undo_stack' = Append(undo_stack, UndoAction("send_email", recorded', "none"))
       /\ (/\ ret'.op = "process_command"
           /\ ret'.intent = "send_email"
           /\ ret'.val \in {"error", "cancelled", "missing_parameters", "dry_run"}) =>
              undo_stack' = undo_stack]_vars

C3_Witness ==
    /\ ret = [op |-> "process_command", intent |-> "send_email", val |-> "error"]
    /\ calls = <<ServiceCall("send_email", "ok"), ServiceCall("send_email", "raise")>>
    /\ Len(undo_stack) = 1

\* C4: every mutating operation that completes appends exactly one
\* UndoAction to the undo stack.
C4_CompletedMutationRecorded ==
    [][(MadeCall /\ calls'[Len(calls')].outcome = "ok") =>
           /\ recorded' = recorded + 1
           /\ Len(undo_stack') = Len(undo_stack) + 1]_vars

\* the number of addresses in parameters["to"] when it is a list, else -1
RecipientCount(parameters) ==
    IF "to" \in DOMAIN parameters /\ parameters["to"].kind = "list"
    THEN Len(parameters["to"].items) ELSE -1

\* parameters["email"] is an address that is not internal
ExternalEmail(parameters) ==
    /\ "email" \in DOMAIN parameters
    /\ parameters["email"] # <<>>
    /\ ~IsInternalEmail(parameters["email"])

\* C19: requires_confirmation(intent, parameters) is true iff
\* is_destructive(intent) is true, or intent is send_email with more than 3
\* recipients in to, or intent is share_file with an email that is not
\* internal; for send_email with 4 addresses it is true, and with 3
\* addresses it is false unless the intent is otherwise destructive.
C19_RequiresConfirmationCases ==
    ret.op = "requires_confirmation" =>
        /\ ret.val <=>
               \/ IsDestructive(ret.intent)
               \/ ret.intent = "send_email" /\ RecipientCount(ret.parameters) > 3
               \/ ret.intent = "share_file" /\ ExternalEmail(ret.parameters)
        /\ (ret.intent = "send_email" /\ RecipientCount(ret.parameters) = 4) => ret.val
        /\ (/\ RecipientCount(ret.parameters) = 3
            /\ ret.intent \notin {"delete_email", "delete_event", "delete_file",
                                  "move_file", "send_email", "share_file",
                                  "update_event", "update_file"}) => ~ret.val

C19_Witness ==
    /\ ret.op = "requires_confirmation"
    /\ ret.intent = "send_email"
    /\ RecipientCount(ret.parameters) = 4
    /\ ret.val

\* C20: is_destructive(intent) is true exactly for send_email, delete_email,
\* delete_event, delete_file, move_file, share_file, update_event and
\* update_file and false for every other intent name, whatever the dry-run
\* mode and the undo stack are.
C20_DestructiveIntentsFixed ==
    ret.op = "is_destructive" =>
        /\ ret.val <=>
               ret.intent \in {"send_email", "delete_email", "delete_event",
                               "delete_file", "move_file", "share_file",
                               "update_event", "update_file"}
        /\ ret.intent \in {"search_email", "list_events", "create_event"} => ~ret.val

C20_Witness ==
    /\ ret.op = "is_destructive"
    /\ ret.intent = "update_file"
    /\ ret.val
    /\ dry_run
    /\ Len(undo_stack) > 0

(***************************************************************************)
(* Properties of process_command                                           *)
(***************************************************************************)
\* the last invocation of process_command attempted a command: a smart
\* query that was handled, a workflow, or a single-shot command that was
\* understood and not declined
AttemptedCommand ==
    \/ ret.op \in {"smart_query", "execute_workflow"}
    \/ ret.op = "process_command" /\ ret.val \notin {"not_understood", "declined"}

\* C11: every process_command invocation that attempts a command (a
\* single-shot command, a multi-service workflow or a smart query) has
\* appended exactly one record to the session history when it returns, and
\* no invocation appends more than one.
C11_OneRecordPerAttemptedCommand ==
    /\ Len(history) <= entry_len + 1
    /\ (pc \in {"idle", "done"} /\ AttemptedCommand) => Len(history) = entry_len + 1

\* C12: when the service call made for a single-shot command raises,
\* process_command returns normally (the exception does not propagate) and
\* has appended one record with success = false, error = the message of the
\* exception and result = None.
C12_RaisedCallRecordedAsFailure ==
    [][(/\ ret'.op = "process_command"
        /\ \/ ret'.val = "error"
           \/ MadeCall /\ calls'[Len(calls')].outcome = "raise") =>
           /\ pc' = "idle"
           /\ ret'.val = "error"
           /\ Len(history') = Len(history) + 1
           /\ SubSeq(history', 1, Len(history)) = history
           /\ LastRecord(history').success = FALSE
           /\ LastRecord(history').error # NoError
           /\ LastRecord(history').error = ExceptionMessage(LastRecord(history').service)
           /\ LastRecord(history').result = PyNone]_vars

C12_Witness ==
    /\ ret = [op |-> "process_command", intent |-> "share_file", val |-> "error"]
    /\ Len(history) = 2
    /\ history[1].success /\ history[1].error = NoError
    /\ ~history[2].success
    /\ history[2].error = "drive error"
    /\ history[2].result = PyNone
    /\ calls[Len(calls)] = ServiceCall("share_file", "raise")

\* C14: a send_email intent that lacks to, subject or body never leads to a
\* gmail send_email call, neither as a single-shot command nor as a
\* workflow step.
C14_IncompleteSendEmailNeverSent ==
    [][/\ (/\ ret'.op = "process_command"
           /\ ret'.intent = "send_email"
           /\ ret'.val = "missing_parameters") => calls' = calls
       /\ (pc = "workflow" /\ Len(attempted') > Len(attempted)) =>
              LET step == steps'[step_i + 1]
              IN  (/\ step.service = "gmail"
                   /\ step.intent = "send_email"
                   /\ ~({"to", "subject", "body"} \subseteq DOMAIN step.parameters)) =>
                      calls' = calls]_vars

\* C16: process_command runs a workflow only for a language-model result
\* with multi_service = true and a non-empty operations list; every other
\* result (multi_service = true with no operations, multi_service = false,
\* a failed parse) goes on to single-service routing.
C16_WorkflowOnlyForNonEmptyOperations ==
    [][(pc = "idle" /\ pc' = "workflow") => Len(steps') > 0]_vars

(***************************************************************************)
(* Properties of the intent parser                                         *)
(***************************************************************************)
\* the system prompt of the parser of a service
PromptOf(service) ==
    CASE service = "calendar" -> "CALENDAR_SYSTEM_PROMPT"
      [] service = "drive" -> "DRIVE_SYSTEM_PROMPT"
      [] service = "gmail" -> "GMAIL_SYSTEM_PROMPT"

\* C21: parse_command selects calendar when the lower-cased command holds a
\* calendar keyword, otherwise drive when it holds a drive keyword,
\* otherwise gmail; it invokes exactly one service parser, that of the
\* selected service, and returns the selected service whether or not the
\* parser produced an intent.
C21_ServiceByFirstKeywordSet ==
    ret.op = "parse_command" =>
        LET lowered == LowerText(ret.text)
            selected == IF ContainsAny(lowered, calendar_keywords) THEN "calendar"
                        ELSE IF ContainsAny(lowered, drive_keywords) THEN "drive"
                        ELSE "gmail"
        IN  /\ ret.val.service = selected
            /\ ret.val.prompts = <<PromptOf(selected)>>

\* a command with a drive and a calendar keyword went to the calendar
\* parser, which produced no intent
C21_Witness ==
    /\ ret.op = "parse_command"
    /\ ret.text = <<"share", "the", "meeting", "notes">>
    /\ ret.val.service = "calendar"
    /\ ret.val.prompts = <<"CALENDAR_SYSTEM_PROMPT">>
    /\ ret.val.intent = <<>>

\* empty content, invalid JSON, a schema violation or a raised exception
FailedReply(reply) ==
    \/ reply.kind \in {"empty", "text", "raise"}
    \/ reply.kind = "json" /\ ~SchemaValid(reply.data)

\* C22: when every reply of the language model fails, parse_intent makes at
\* most max_retries + 1 calls and returns None, and process_command returns
\* "not understood" without a service call and without a new CommandResult.
C22_FailedParseIsNotUnderstood ==
    [][\A text \in CommandTexts : \A parsed \in CommandParses[text] :
           (/\ \A k \in 1..Len(parsed.replies) : FailedReply(parsed.replies[k])
            /\ pc = "idle"
            /\ DispatchParsed(parsed.parse))
               => /\ parsed.parse.llm_calls <= max_retries + 1
                  /\ parsed.parse.intent = <<>>
                  /\ ret'.op = "process_command"
                  /\ ret'.val = "not_understood"
                  /\ calls' = calls
                  /\ history' = history]_vars

\* a command was not understood after max_retries + 1 calls of the model
C22_Witness ==
    /\ ret.op = "process_command"
    /\ ret.val = "not_understood"
    /\ ret.llm_calls = max_retries + 1

\* C23: is_confident is true iff the confidence is at least the threshold,
\* which is 0.7 when the caller passes none, so a confidence of exactly 0.7
\* is confident; parse_command returns a valid intent whatever its
\* confidence.
C23_ConfidentIffAtLeastThreshold ==
    /\ ret.op = "is_confident" =>
           ret.val = (ret.intent.confidence >=
                          (IF Len(ret.args) > 0 THEN ret.args[1] ELSE 70))
    /\ (ret.op = "parse_command" /\ ret.replies[1].kind = "json"
            /\ SchemaValid(ret.replies[1].data)) =>
           ret.val.intent = <<ModelValidate(ret.replies[1].data)>>

\* the boundary: confidence 0.7 under the default threshold
C23_Witness ==
    /\ ret.op = "is_confident"
    /\ ret.args = <<>>
    /\ ret.intent.confidence = 70
    /\ ret.val = TRUE

\* parse_command returned an intent of confidence 0.5
C23_LowConfidenceReturned ==
    /\ ret.op = "parse_command"
    /\ Len(ret.val.intent) = 1
    /\ ret.val.intent[1].confidence < 70

(***************************************************************************)
(* Properties of resolve_reference                                         *)
(***************************************************************************)
IsResolved == ret.op = "resolve_reference"

\* the reference slots a kind of entity is read from
SlotsOf(kind) ==
    CASE kind = "email" -> {"last_email"}
      [] kind = "event" -> {"last_event", "next_meeting"}
      [] kind = "file" -> {"last_file"}
      [] OTHER -> {}

\* C24 as stated: resolve_reference returns a kind and an entity that are
\* both set, or (None, None); a phrase whose slot is empty gives (None, None).
C24_KindAndEntityOrNeither ==
    IsResolved =>
        \/ ret.val.kind # "none" /\ ret.val.entity # PyNone
        \/ ret.val = NoReference

\* C24 amended: a result without a kind has no entity; a kind without an
\* entity is returned exactly when a phrase or a bare pronoun matched and
\* the slot it reads is empty, and never by the positional rule.
C24_KindWithoutEntityOnlyForEmptySlot ==
    IsResolved =>
        /\ ret.val.kind = "none" => ret.val.entity = PyNone
        /\ (ret.val.kind # "none" /\ ret.val.entity = PyNone) =>
               \E k \in SlotsOf(ret.val.kind) : RefGet(references, k) = PyNone

\* "that email" was resolved while last_email was not set
C24_Witness ==
    /\ IsResolved
    /\ ret.text = <<"read", "that", "email">>
    /\ references["last_email"].tag = "absent"
    /\ ret.val = [kind |-> "email", entity |-> PyNone]

\* the first of the patterns of resolve_reference that the text matches, in
\* the order of the code; 0 when it matches none
FirstPattern(text) ==
    IF ContainsAny(text, {<<"that", "email">>, <<"the", "email">>, <<"this", "email">>,
                          <<"last", "email">>}) THEN 1
    ELSE IF ContainsAny(text, {<<"that", "meeting">>, <<"the", "meeting">>,
                               <<"this", "meeting">>}) THEN 2
    ELSE IF ContainsAny(text, {<<"next", "meeting">>, <<"upcoming", "meeting">>}) THEN 3
    ELSE IF ContainsAny(text, {<<"that", "file">>, <<"the", "file">>, <<"this", "file">>})
    THEN 4
    ELSE IF text \in {<<"it">>, <<"that">>, <<"this">>} THEN 5
    ELSE IF Contains(text, <<"first">>) \/ Contains(text, <<"second">>) THEN 6
    ELSE 0

\* the kind and the slot a bare pronoun stands for after a command of a service
PronounTarget(service) ==
    CASE service = "gmail" -> <<"email", "last_email">>
      [] service = "calendar" -> <<"event", "last_event">>
      [] service = "drive" -> <<"file", "last_file">>

\* C25: the patterns are tried in the order email phrases, meeting phrases,
\* next / upcoming meeting, file phrases, bare pronoun, positional, and the
\* first one that matches determines the result; the positional rule yields
\* an element only of a last result that is a list holding that index.
C25_FirstMatchingPatternDecides ==
    IsResolved =>
        LET first == FirstPattern(ret.text)
            last == GetLastCommand(history)
            index == IF Contains(ret.text, <<"first">>) THEN 1 ELSE 2
        IN  /\ first = 1 => ret.val = [kind |-> "email",
                                       entity |-> RefGet(references, "last_email")]
            /\ first = 2 => ret.val = [kind |-> "event",
                                       entity |-> RefGet(references, "last_event")]
            /\ first = 3 => ret.val = [kind |-> "event",
                                       entity |-> RefGet(references, "next_meeting")]
            /\ first = 4 => ret.val = [kind |-> "file",
                                       entity |-> RefGet(references, "last_file")]
            /\ first = 5 =>
                   ret.val = IF Len(last) = 0 THEN NoReference
                             ELSE [kind |-> PronounTarget(last[1].service)[1],
                                   entity |-> RefGet(references,
                                                     PronounTarget(last[1].service)[2])]
            /\ first = 6 =>
                   ret.val = IF /\ Len(last) > 0
                                /\ IsList(last[1].result)
                                /\ Len(last[1].result.items) >= index
                             THEN [kind |-> last[1].service,
                                   entity |-> PyDict(last[1].result.items[index])]
                             ELSE NoReference
            /\ first = 0 => ret.val = NoReference

\* a text with "that email" and "that meeting" resolved to last_email while
\* last_event was set too
C25_Witness ==
    /\ IsResolved
    /\ ret.text = <<"attach", "that", "email", "to", "that", "meeting">>
    /\ ret.val.kind = "email"
    /\ ret.val.entity = RefGet(references, "last_email")
    /\ Truthy(RefGet(references, "last_email"))
    /\ Truthy(RefGet(references, "last_event"))

\* the positional rule returned the second element of the last result
C25_PositionalWitness ==
    /\ IsResolved
    /\ ret.text = <<"the", "second", "one">>
    /\ ret.val.kind \in Services
    /\ Truthy(ret.val.entity)

\* C26: resolve_reference changes neither history nor references, and a
\* second call with the same text right after returns the same result.
C26_ResolveReferenceIsPure ==
    [][ret'.op = "resolve_reference" =>
           /\ history' = history
           /\ references' = references
           /\ (ret.op = "resolve_reference" /\ ret.text = ret'.text) =>
                  ret'.val = ret.val]_vars

\* a reference was resolved to an entity of the session
C26_Witness ==
    /\ IsResolved
    /\ ret.val.kind = "event"
    /\ Truthy(ret.val.entity)
    /\ Len(history) > 0

(***************************************************************************)
(* Properties of infer_parameters                                          *)
(***************************************************************************)
IsInferred == ret.op = "infer_parameters"

\* the slot, the parameter and the marker of the pronoun rule of an intent
PronounRule(intent) ==
    CASE intent \in {"share_file", "download_file", "delete_file"} ->
             <<"last_file", "file_id", "inferred_file">>
      [] intent \in {"read_email", "delete_email"} ->
             <<"last_email", "email_id", "inferred_email">>
      [] intent \in {"update_event", "delete_event"} ->
             <<"last_event", "event_id", "inferred_event">>
      [] OTHER -> <<>>

HasPronoun(command) ==
    ContainsAny(LowerText(command), {<<"it">>, <<"that">>, <<"this">>})

Resolvable ==
    /\ IsInferred
    /\ HasPronoun(ret.command)
    /\ Len(PronounRule(ret.intent)) > 0
    /\ Truthy(RefGet(references, PronounRule(ret.intent)[1]))

\* C27: infer_parameters leaves the dict the caller passed as it was, the
\* values it holds included; enrichments show only in the returned dict.
C27_CallerParametersUntouched ==
    IsInferred => ret.caller = ret.parameters

\* C28: when the lookup of infer_parameters raises, the call returns
\* normally with what it returns when the lookup finds nothing (an entity
\* is inferred by the pronoun rule only), and the other rules still apply:
\* the days window, the filter tokens.
C28_LookupFailureSwallowed ==
    (IsInferred /\ ret.lookup = "raise") =>
        LET command == LowerText(ret.command)
        IN  /\ ~ret.raised
            /\ ret.val = InferParameters(history, references, ret.command, ret.intent,
                                         ret.parameters, "fail").params
            /\ ~HasParam(ret.val, "summary")
            /\ \A key \in {"inferred_event", "inferred_email"} :
                   HasParam(ret.val, key) =>
                       /\ Resolvable
                       /\ key = PronounRule(ret.intent)[3]
                       /\ ret.val[key] = RefGet(references, PronounRule(ret.intent)[1])
            /\ (ret.intent = "list_events" /\ Contains(command, <<"this", "week">>)) =>
                   HasParam(ret.val, "days") /\ ret.val["days"] = PyInt(7)
            /\ (ret.intent \in {"send_email", "read_email", "search_email"}
                    /\ Contains(command, <<"unread">>)) =>
                   /\ HasParam(ret.val, "query")
                   /\ \E k \in 1..Len(ret.val["query"].items) :
                          ret.val["query"].items[k] = Token("is:unread", 0)

\* list_events raised for "next meeting this week": no event was inferred,
\* the days window was
C28_Witness ==
    /\ IsInferred
    /\ ret.lookup = "raise"
    /\ ret.intent = "list_events"
    /\ ret.command = <<"my", "next", "meeting", "this", "week">>
    /\ ~HasParam(ret.val, "event_id")
    /\ HasParam(ret.val, "days")

\* the addresses in parameters["to"]
RecipientsOf(parameters) ==
    IF ~HasParam(parameters, "to") THEN {}
    ELSE IF IsList(parameters["to"])
    THEN {parameters["to"].items[k] : k \in 1..Len(parameters["to"].items)}
    ELSE IF parameters["to"].kind = "str" /\ parameters["to"].id # ""
    THEN {parameters["to"].id}
    ELSE {}

\* C29: for a send_email whose command mentions attendees, every recipient
\* in to before the inference is in the to that is returned, and
\* inferred_attendees is true whenever an attendee email was extracted.
C29_AttendeesAppendedToRecipients ==
    (IsInferred /\ ret.intent = "send_email"
         /\ Contains(LowerText(ret.command), <<"attendees">>)) =>
        /\ RecipientsOf(ret.parameters) \subseteq RecipientsOf(ret.val)
        /\ Len(ret.attendees) > 0 =>
               HasParam(ret.val, "inferred_attendees")
                   /\ ret.val["inferred_attendees"] = PyTrue

\* the tokens of parameters["query"] when it is set and not empty
QueryTokens(parameters) ==
    IF HasParam(parameters, "query") /\ IsTrue(parameters["query"])
    THEN parameters["query"].items
    ELSE <<>>

\* C30: for the mail intents the query that is returned starts with the
\* query that was passed and goes on with nothing but filter tokens:
\* is:unread when the command says unread, is:important when it says
\* important or priority, newer_than:<days>d when it names a period.
C30_FilterTokensAdditive ==
    (IsInferred /\ ret.intent \in {"send_email", "read_email", "delete_email",
                                   "search_email"}) =>
        LET command == LowerText(ret.command)
            before == QueryTokens(ret.parameters)
            after == QueryTokens(ret.val)
            added == SubSeq(after, Len(before) + 1, Len(after))
            has(flag) == \E k \in 1..Len(added) : added[k].flag = flag
        IN  /\ Len(after) >= Len(before)
            /\ SubSeq(after, 1, Len(before)) = before
            /\ \A k \in 1..Len(added) :
                   added[k].flag \in {"is:unread", "is:important", "newer_than"}
            /\ has("is:unread") <=> Contains(command, <<"unread">>)
            /\ has("is:important") <=>
                   ContainsAny(command, {<<"important">>, <<"priority">>})
            /\ Contains(command, <<"last", "2", "weeks">>) =>
                   \E k \in 1..Len(added) : added[k] = Token("newer_than", 14)
            /\ Contains(command, <<"last", "3", "days">>) =>
                   \E k \in 1..Len(added) : added[k] = Token("newer_than", 3)
            /\ Contains(command, <<"last", "month">>) =>
                   \E k \in 1..Len(added) : added[k] = Token("newer_than", 30)
            /\ Len(added) = 0 =>
                   (HasParam(ret.val, "query") <=> HasParam(ret.parameters, "query"))

\* "show unread important emails" added both tokens to the query from:boss
C30_Witness ==
    /\ IsInferred
    /\ ret.intent = "search_email"
    /\ ret.command = <<"show", "unread", "important", "emails">>
    /\ ret.parameters = [query |-> PyText(<<Token("from:boss", 0)>>)]
    /\ ret.val["query"] = PyText(<<Token("from:boss", 0), Token("is:unread", 0),
                                   Token("is:important", 0)>>)

\* the scenario of the claim: empty parameters, both tokens in the query
C30_EmptyParametersWitness ==
    /\ IsInferred
    /\ ret.command = <<"show", "unread", "important", "emails">>
    /\ ret.parameters = <<>>
    /\ ret.val["query"] = PyText(<<Token("is:unread", 0), Token("is:important", 0)>>)

\* C31: when the command holds "it", "that" or "this" as a word and the
\* references hold the last file (email, event), infer_parameters for a file
\* (email, event) intent returns file_id (email_id, event_id) = the id of
\* that entity together with the inferred_file (inferred_email,
\* inferred_event) marker
C31_PronounResolvedToLastEntity ==
    Resolvable =>
        LET rule == PronounRule(ret.intent)
            entity == RefGet(references, rule[1])
        IN  /\ HasParam(ret.val, rule[2])
            /\ ret.val[rule[2]] = PyStr(entity.id)
            /\ HasParam(ret.val, rule[3])
            /\ ret.val[rule[3]] = entity

\* "Share it with x@y.com" for share_file with a last file
C31_Witness ==
    /\ Resolvable
    /\ ret.command = <<"Share", "it", "with", "x@y.com">>
    /\ ret.intent = "share_file"
    /\ ret.val["file_id"] = PyStr(RefGet(references, "last_file").id)

\* "this" resolved to the last event although the next meeting was looked up
C31_EventWitness ==
    /\ Resolvable
    /\ ret.intent = "delete_event"
    /\ Contains(LowerText(ret.command), <<"this">>)
    /\ ret.val["event_id"] = PyStr(RefGet(references, "last_event").id)

\* the last email read by "it"
C31_EmailWitness ==
    /\ Resolvable
    /\ ret.intent = "read_email"
    /\ ret.val["email_id"] = PyStr(RefGet(references, "last_email").id)

(***************************************************************************)
(* Properties of the order of the workflow loop                            *)
(***************************************************************************)
Increasing(seq) == \A j, k \in 1..Len(seq) : j < k => seq[j] < seq[k]

\* C32: _execute_workflow visits the steps in increasing index order and
\* attempts each at most once: completed_steps and failed_steps are
\* disjoint, each in increasing order and without repetition, every index
\* in them is a step the loop has passed and that was executed once, and the
\* keys of results are exactly the indices in completed_steps.
C32_EachStepAttemptedOnceInOrder ==
    pc \in {"workflow", "done"} =>
        /\ Increasing(completed_steps)
        /\ Increasing(failed_steps)
        /\ Range(completed_steps) \cap Range(failed_steps) = {}
        /\ Increasing([k \in 1..Len(attempted) |-> attempted[k].index])
        /\ AttemptedIndices = Range(completed_steps) \cup Range(failed_steps)
        /\ AttemptedIndices \subseteq 0..(step_i - 1)
        /\ DOMAIN results = Range(completed_steps)

\* a run of MaxSteps steps in which the first failed and the second completed
C32_Witness ==
    /\ pc = "done"
    /\ Len(steps) = MaxSteps
    /\ failed_steps = <<0>>
    /\ completed_steps = <<1>>
    /\ DOMAIN results = {1}

\* C33: a step whose dependency is not in completed_steps when the loop
\* reaches it (a later index, its own index, no step's index, a failed or a
\* skipped step) is never executed in that run: it is in neither
\* completed_steps nor failed_steps, and the loop never goes back.
C33_SkippedStepNeverExecuted ==
    [][/\ pc' \in {"workflow", "done"} =>
              \A i \in 0..(step_i' - 1) :
                  ~EligibleStep(i)' =>
                      /\ i \notin AttemptedIndices'
                      /\ i \notin Range(completed_steps')
                      /\ i \notin Range(failed_steps')
       /\ pc = "workflow" => step_i' >= step_i
       /\ pc = "workflow" /\ pc' = "workflow" => step_i' > step_i
       /\ pc = "done" => pc' = "done"]_vars

\* the first step depends on the second, the second on the skipped first:
\* the run ends with nothing executed
C33_Witness ==
    /\ pc = "done"
    /\ Len(steps) = 2
    /\ steps[1].depends_on = 1
    /\ steps[2].depends_on = 0
    /\ completed_steps = <<>>
    /\ failed_steps = <<>>
    /\ attempted = <<>>

\* the second step depends on the first, which failed, and is skipped
C33_FailedDependencyWitness ==
    /\ pc = "done"
    /\ Len(steps) = 2
    /\ steps[2].depends_on = 0
    /\ failed_steps = <<0>>
    /\ completed_steps = <<>>
    /\ ret.val = [completed |-> 0, failed |-> 1]

\* a step that depends on itself, and one that depends on no step's index
C33_SelfDependencyWitness ==
    /\ pc = "done"
    /\ Len(steps) = 2
    /\ steps[1].depends_on = 0
    /\ steps[2].depends_on = Len(steps)
    /\ attempted = <<>>

(***************************************************************************)
(* Properties of retry_with_backoff and get_delay                          *)
(***************************************************************************)
IsWrappedCall == ret.op = "retry_with_backoff"

\* the k-th invocation raised an error after which the wrapper goes on
RetryableAt(k) ==
    /\ ret.outcomes[k].type # "return"
    /\ IsInstance(ret.outcomes[k], ret.retryable_exceptions)
    /\ IsRetryableError(ret.outcomes[k])

\* the k-th invocation raised an HTTP 4xx other than 429, or an exception
\* outside the retryable types
PlainlyNotRetryableAt(k) ==
    \/ /\ ret.outcomes[k].type = "HttpError"
       /\ ret.outcomes[k].status \in 400..499
       /\ ret.outcomes[k].status # 429
    \/ /\ ret.outcomes[k].type \notin {"return", "HttpError"}
       /\ ret.outcomes[k].type \notin ret.retryable_exceptions

\* C34: a function wrapped by retry_with_backoff is invoked at most
\* max_attempts times per call; once when the first attempt returns or
\* raises a non-retryable error, which is raised at once; again only after
\* a retryable error; and when all max_attempts attempts raise retryable
\* errors the last of them is raised to the caller.
C34_AtMostMaxAttemptsInvocations ==
    IsWrappedCall =>
        LET n == ret.max_attempts
            v == ret.val
        IN  /\ v.invocations <= n
            /\ v.slept = (IF v.invocations = 0 THEN 0 ELSE v.invocations - 1)
            /\ n >= 1 /\ ~RetryableAt(1) =>
                   /\ v.invocations = 1
                   /\ v.returned <=> ret.outcomes[1].type = "return"
                   /\ ~v.returned => v.raised = <<ret.outcomes[1]>>
            /\ \A k \in 2..v.invocations : RetryableAt(k - 1)
            /\ \A k \in 1..v.invocations :
                   PlainlyNotRetryableAt(k) =>
                       k = v.invocations /\ v.raised = <<ret.outcomes[k]>>
            /\ v.returned =>
                   v.raised = <<>> /\ ret.outcomes[v.invocations].type = "return"
            /\ n >= 1 /\ (\A k \in 1..n : RetryableAt(k)) =>
                   /\ v.invocations = n
                   /\ ~v.returned
                   /\ v.raised = <<ret.outcomes[n]>>

\* three attempts that all raise a retryable error: the last one is raised
C34_Witness ==
    /\ IsWrappedCall
    /\ ret.max_attempts = default_max_attempts
    /\ \A k \in 1..ret.max_attempts : RetryableAt(k)
    /\ ret.outcomes[1] # ret.outcomes[default_max_attempts]
    /\ ret.val.invocations = default_max_attempts
    /\ ret.val.raised = <<ret.outcomes[default_max_attempts]>>

\* a 404 after a 500: raised at the second attempt of three
C34_NotRetryableWitness ==
    /\ IsWrappedCall
    /\ ret.max_attempts = default_max_attempts
    /\ RetryableAt(1)
    /\ PlainlyNotRetryableAt(2)
    /\ ret.val.invocations = 2

\* a failure followed by a success
C34_EventuallySuccessfulWitness ==
    /\ IsWrappedCall
    /\ ret.max_attempts >= 2
    /\ RetryableAt(1)
    /\ ret.val.returned
    /\ ret.val.invocations = 2

\* C35: for a RetryConfig with the default jitter, get_delay(attempt) never
\* exceeds max_delay, and the delay of attempt k + 1 is greater than a
\* delay of attempt k obtained before it (k = 0, 1 for base_delay 1,
\* exponential_base 2, max_delay 10).
C35_DelayCappedAndIncreasing ==
    [][ret'.op = "get_delay" /\ ret'.config.jitter =>
           /\ ret'.val <= ret'.config.max_delay
           /\ (/\ ret.op = "get_delay"
               /\ ret.config = ret'.config
               /\ ret.config.max_delay = 10000
               /\ ret.attempt \in {0, 1}
               /\ ret'.attempt = ret.attempt + 1) => ret.val < ret'.val]_vars

\* the cap alone
C35_DelayCapped ==
    ret.op = "get_delay" /\ ret.config.jitter => ret.val <= ret.config.max_delay

\* the increase alone
C35_DelayIncreasing ==
    [][(/\ ret.op = "get_delay"
        /\ ret'.op = "get_delay"
        /\ ret.config = ret'.config
        /\ ret.config.jitter
        /\ ret.config.max_delay = 10000
        /\ ret.attempt \in {0, 1}
        /\ ret'.attempt = ret.attempt + 1) => ret.val < ret'.val]_vars

\* without jitter the delay is capped and does not decrease
C35_NoJitterDelayCapped ==
    ret.op = "get_delay" /\ ~ret.config.jitter =>
        /\ ret.val <= ret.config.max_delay
        /\ ret.val = Min(ret.config.base_delay
                             * Power(ret.config.exponential_base, ret.attempt),
                         ret.config.max_delay)

(***************************************************************************)
(* Further properties of the session memory                                *)
(***************************************************************************)
\* C36: for every n >= 0 and every history, get_last_n_commands(n) returns
\* the last min(n, len(history)) records of the history in chronological
\* order, so at most n records, and does not change the history.
C36_LastMinRecords ==
    [][\A n \in 0..MaxHistory :
           ret'.op = "get_last_n_commands" /\ CallGetLastN(n) =>
               /\ ret'.val = SubSeq(history, Len(history) - Min(n, Len(history)) + 1,
                                    Len(history))
               /\ Len(ret'.val) <= n
               /\ history' = history]_vars

\* the same for n >= 1, where it holds
C36_LastMinRecordsForPositiveN ==
    [][\A n \in 1..MaxHistory :
           ret'.op = "get_last_n_commands" /\ CallGetLastN(n) =>
               /\ ret'.val = SubSeq(history, Len(history) - Min(n, Len(history)) + 1,
                                    Len(history))
               /\ Len(ret'.val) <= n
               /\ history' = history]_vars

(***************************************************************************)
(* Further properties of the safety policy                                 *)
(***************************************************************************)
\* C37: requires_confirmation(intent, parameters) equals
\* is_destructive(intent) for every intent name and every parameters
\* mapping: the recipient-count condition and the external-address
\* condition never change the outcome, so the result does not depend on
\* the parameters.
C37_ConfirmationEqualsDestructive ==
    ret.op = "requires_confirmation" =>
        /\ ret.val = IsDestructive(ret.intent)
        /\ \A parameters \in PolicyParameters :
               RequiresConfirmation(ret.intent, parameters) = ret.val

\* more than three recipients and an external address, for an intent that
\* is not destructive: no confirmation
C37_Witness ==
    /\ ret.op = "requires_confirmation"
    /\ ~IsDestructive(ret.intent)
    /\ RecipientCount(ret.parameters) > 3
    /\ ExternalEmail(ret.parameters)
    /\ ~ret.val

\* share_file with an internal address asks for confirmation all the same
C37_InternalShareWitness ==
    /\ ret.op = "requires_confirmation"
    /\ ret.intent = "share_file"
    /\ HasParam(ret.parameters, "email")
    /\ Len(ret.parameters["email"]) > 0
    /\ ~ExternalEmail(ret.parameters)
    /\ RecipientCount(ret.parameters) <= 3
    /\ ret.val

(***************************************************************************)
(* Further properties of the undo stack                                    *)
(***************************************************************************)
\* C38: undo_last_action inspects only the top of the stack: while the most
\* recently recorded action has no undo data, every undo_last_action
\* request leaves the undo stack unchanged, so an earlier action is out of
\* reach; and undo_last_action never removes more than the top entry.
C38_UndoInspectsTopOnly ==
    [][ret'.op = "undo_last_action" =>
           /\ (Len(undo_stack) > 0 /\ ~HasUndoData(undo_stack[Len(undo_stack)])) =>
                  /\ undo_stack' = undo_stack
                  /\ ret'.val = "cannot_undo"
           /\ undo_stack' \in {undo_stack, Pop(undo_stack)}
           /\ undo_stack' # undo_stack =>
                  /\ HasUndoData(undo_stack[Len(undo_stack)])
                  /\ ret'.val = "popped"]_vars

\* a second refused undo in a row, with a reversible action below the top
C38_Witness ==
    /\ ret.op = "undo_last_action"
    /\ ret.val = "cannot_undo"
    /\ Len(undo_stack) >= 2
    /\ ~HasUndoData(undo_stack[Len(undo_stack)])
    /\ HasUndoData(undo_stack[Len(undo_stack) - 1])

(***************************************************************************)
(* Properties of the entity references                                     *)
(***************************************************************************)
\* the positions in the history of the successful commands of a service
\* and of one of the intents whose result was a non-empty list
Hits(service, intents) ==
    {k \in 1..Len(history) :
         /\ history[k].service = service
         /\ history[k].intent \in intents
         /\ history[k].success
         /\ IsList(history[k].result)
         /\ Len(history[k].result.items) > 0}

Latest(hits) == CHOOSE k \in hits : \A j \in hits : j <= k

\* the slot is set exactly when there was such a command, and holds the
\* first element of the result of the most recent one
PointsAtLatest(slot, service, intents) ==
    LET hits == Hits(service, intents)
    IN  IF hits = {}
        THEN references[slot] = Absent
        ELSE references[slot] = ValRef(Elem(history[Latest(hits)].result, 1))

\* C39: between clears, references["last_email"] (last_event, last_file),
\* when present, is the first element of the result of the most recent
\* successful search_email (list_events / search_event, search_file)
\* command in the history whose result was a non-empty list; a later
\* command of that kind that fails or returns an empty result leaves the
\* entry as it is.
C39_EntityIsLatestNonEmptyHit ==
    /\ PointsAtLatest("last_email", "gmail", {"search_email"})
    /\ PointsAtLatest("last_event", "calendar", {"list_events", "search_event"})
    /\ PointsAtLatest("last_file", "drive", {"search_file"})

\* two searches of mail that found e1 and then e2
C39_Witness ==
    /\ Len(history) = 2
    /\ Hits("gmail", {"search_email"}) = {1, 2}
    /\ Elem(history[1].result, 1) # Elem(history[2].result, 1)
    /\ references["last_email"] = ValRef(Elem(history[2].result, 1))

\* a search of events that failed after one that found an event
C39_OlderEntityWitness ==
    /\ Len(history) = 2
    /\ Hits("calendar", {"list_events", "search_event"}) = {1}
    /\ history[2].service = "calendar"
    /\ history[2].intent = "search_event"
    /\ ~history[2].success
    /\ references["last_event"] = ValRef(Elem(history[1].result, 1))

(***************************************************************************)
(* Further properties of process_command                                   *)
(***************************************************************************)
\* what a handler reports when it stops before any service call
StoppedReports == {"missing_parameters", "cancelled", "dry_run", "not_implemented"}

\* the record the last process_command appended
AppendedRecord == history[Len(history)]

\* C40: process_command appends a CommandRecord with success = true exactly
\* when the intent handler returned without raising, whether or not a
\* service call was made: a command stopped by the validation of its
\* parameters, by a declined confirmation, by dry-run mode or by an intent
\* that is not implemented is recorded with success = true and a null
\* result, and becomes last_command and last_<service>_command.
C40_SuccessMeansHandlerReturned ==
    [][ret'.op = "process_command" =>
           /\ Len(history') = Len(history) + 1
           /\ history' = Append(history, AppendedRecord')
           /\ AppendedRecord'.success <=> ret'.val # "error"
           /\ AppendedRecord'.success <=> AppendedRecord'.error = NoError
           /\ references'["last_command"] = CmdRef(AppendedRecord')
           /\ references'[ServiceKey(AppendedRecord'.service)] = CmdRef(AppendedRecord')
           /\ ret'.val \in StoppedReports =>
                  /\ calls' = calls
                  /\ AppendedRecord'.success
                  /\ AppendedRecord'.result = PyNone]_vars

\* a send_email stopped by dry-run mode, recorded as a success
C40_Witness ==
    /\ ret.op = "process_command"
    /\ ret.val = "dry_run"
    /\ dry_run
    /\ calls = <<>>
    /\ AppendedRecord.intent = "send_email"
    /\ AppendedRecord.success
    /\ AppendedRecord.result = PyNone
    /\ references["last_command"] = CmdRef(AppendedRecord)
    /\ references["last_gmail_command"] = CmdRef(AppendedRecord)

\* the other three ways to stop, each recorded as a success
C40_MissingParametersWitness ==
    /\ ret.op = "process_command"
    /\ ret.val = "missing_parameters"
    /\ AppendedRecord.success
    /\ calls = <<>>

C40_CancelledWitness ==
    /\ ret.op = "process_command"
    /\ ret.val = "cancelled"
    /\ AppendedRecord.success
    /\ calls = <<>>

C40_NotImplementedWitness ==
    /\ ret.op = "process_command"
    /\ ret.val = "not_implemented"
    /\ AppendedRecord.success
    /\ references["last_command"] = CmdRef(AppendedRecord)

\* a handler that raised: recorded with success = false
C40_RaisedWitness ==
    /\ ret.op = "process_command"
    /\ ret.val = "error"
    /\ ~AppendedRecord.success
    /\ Len(calls) > 0
====
